---- MODULE Spec2Model ----
(***************************************************************************)
(* ZKsync OS extension of the revm execution engine.                       *)
(*                                                                         *)
(*  - the transaction state machine of src/handler.rs (ZKsyncHandler),     *)
(*    driven by the base engine's Handler::run, which is                   *)
(*    run_without_catch_error followed, on an error, by catch_error;       *)
(*  - the Contract Deployer precompile of src/precompiles/deployer.rs;     *)
(*  - the L1 Messenger precompile of src/precompiles/l1_messenger.rs.      *)
(*                                                                         *)
(* Amounts are 256-bit words in the program.  The model keeps the same     *)
(* saturating / wrapping / checked operations on words of WordBits bits,   *)
(* and draws balances and fees far below the word maximum, as they are on  *)
(* a chain whose total supply is far below 2^256.                          *)
(***************************************************************************)
EXTENDS Integers, Sequences, FiniteSets, TLC

VARIABLES
    tx,          \* the transaction envelope (ZKsyncTx)
    accounts,    \* journal state: address -> [balance, nonce, has_code, touched]
    pre,         \* the accounts as they were before the transaction
    journal,     \* journal entries of the running transaction, oldest first
    pc,          \* the handler's position
    frame,       \* the FrameResult of the execution phase, <<>> before it
    ctx_error,   \* evm.ctx().error(): "" (Ok) | "Db" | "Custom"
    pending,     \* the error run_without_catch_error returned, NoError if none
    result,      \* what Handler::run returned
    scratch,     \* local context and frame stack: "dirty" | "clear"
    commits,     \* number of journal commit_tx calls
    phases,      \* the phases entered so far, in order
    checks,      \* the validation checks that have run
    chain,       \* the caller's transactions so far: first nonce, commits, kinds
    dcall,       \* the Contract Deployer call and its result
    mcall,       \* the L1 Messenger call, its result and the logs
    bcall,       \* the L2 Base Token call, its result and the token-holder account
    l1,          \* the L1BlockInfo snapshot and the transactions priced with it
    prun         \* a call of the precompile dispatch layer

hvars == <<tx, accounts, pre, journal, pc, frame, ctx_error, pending, result,
           scratch, commits, phases, checks, chain>>
vars == <<hvars, dcall, mcall, bcall, l1, prun>>

(***************************************************************************)
(* Bounds of the model.                                                    *)
(***************************************************************************)
WordBits == 8          \* width of the model's stand-in for U256
IntrinsicGas == 5      \* stand-in for the base engine's 21000 intrinsic gas
MaxGas == 6            \* largest gas limit
MaxPrice == 1          \* largest gas price
MaxValue == 1          \* largest call value
MaxMint == 8           \* largest mint
MaxBal == 8            \* largest initial caller balance
MaxNonce == 1          \* largest initial caller nonce
MaxRefund == 1         \* largest refund an execution records
BlockBaseFee == 1      \* the block's base fee

U256_MAX == (2 ^ WordBits) - 1
U64_MAX == (2 ^ WordBits) - 1

None == <<>>
Some(x) == <<x>>
IsSome(o) == o # <<>>
UnwrapOr(o, d) == IF o = <<>> THEN d ELSE o[1]

Min(a, b) == IF a <= b THEN a ELSE b

saturating_add(a, b) == IF a + b > U256_MAX THEN U256_MAX ELSE a + b
saturating_sub(a, b) == IF a >= b THEN a - b ELSE 0
\* ruint's `-` on U256 wraps around at the boundary of the type
wrapping_sub(a, b) == IF a >= b THEN a - b ELSE (U256_MAX + 1) - (b - a)

(***************************************************************************)
(* Transaction envelope: src/transaction/abstraction.rs, priority_tx.rs    *)
(***************************************************************************)
UPGRADE_TRANSACTION_TYPE == 126
L1_PRIORITY_TRANSACTION_TYPE == 127
LEGACY_TRANSACTION_TYPE == 0

Caller == "caller"
Target == "target"
RefundRecipient == "refund_recipient"
Beneficiary == "beneficiary"
Addresses == {Caller, Target, RefundRecipient, Beneficiary}

TxNonce == 1

\* a plausible slip: only the priority type is recognised
is_l1_to_l2_tx_priority_only(t) ==
    t.tx_type = L1_PRIORITY_TRANSACTION_TYPE

is_l1_to_l2_tx(t) ==
    t.tx_type = UPGRADE_TRANSACTION_TYPE \/ t.tx_type = L1_PRIORITY_TRANSACTION_TYPE

\* L1 to L2 transactions use gas_price directly; a legacy transaction's
\* effective gas price is its gas price as well
effective_gas_price(t, basefee) ==
    IF is_l1_to_l2_tx(t) THEN t.gas_price ELSE t.gas_price

max_balance_spending(t) == t.gas_limit * t.gas_price + t.value

\* a plausible slip: the value is left out of the spending
effective_balance_spending_without_value(t, basefee) ==
    t.gas_limit * effective_gas_price(t, basefee)

effective_balance_spending(t, basefee) ==
    t.gas_limit * effective_gas_price(t, basefee) + t.value

TxTypes == {LEGACY_TRANSACTION_TYPE, UPGRADE_TRANSACTION_TYPE, L1_PRIORITY_TRANSACTION_TYPE}
GasLimits == (IntrinsicGas - 1) .. MaxGas
Mints == {None, Some(1), Some(MaxMint)}
Overrides == {None, Some(IntrinsicGas), Some(MaxGas + 1)}
Balances == {0, MaxBal}

Transactions ==
    { t \in [tx_type : TxTypes, kind : {"Call", "Create"}, gas_limit : GasLimits,
             gas_price : 0 .. MaxPrice, value : 0 .. MaxValue, nonce : {TxNonce},
             caller : {Caller},
             mint : Mints, refund_recipient : {None, Some(RefundRecipient)},
             gas_used_override : Overrides, force_fail : BOOLEAN] :
        is_l1_to_l2_tx(t) \/ t.refund_recipient = None }

(***************************************************************************)
(* Errors and results: src/transaction/error.rs, src/result.rs             *)
(***************************************************************************)
NoError == [class |-> "", what |-> ""]
TransactionError(w) == [class |-> "Transaction", what |-> w]
DatabaseError == [class |-> "Database", what |-> "Db"]
CustomError == [class |-> "Custom", what |-> "Custom"]

is_tx_error(e) == e.class = "Transaction"

ZkHaltReason_Base(h) == <<"Base", h>>
ZkHaltReason_FailedDeposit == <<"FailedDeposit">>

\* impl TryFrom<ZkHaltReason> for HaltReason
HaltReason_try_from(z) ==
    IF z[1] = "Base" THEN [ok |-> TRUE, value |-> <<z[2]>>]
    ELSE [ok |-> FALSE, value |-> z]

NoResult == [tag |-> "Pending", outcome |-> "", reason |-> <<>>, gas_used |-> 0,
             gas_refunded |-> 0, error |-> NoError]

(***************************************************************************)
(* Gas object of the base engine, as the handler uses it                   *)
(***************************************************************************)
Gas_new_spent(limit) == [limit |-> limit, remaining |-> 0, refunded |-> 0]
Gas_erase_cost(g, returned) == [g EXCEPT !.remaining = @ + returned]
Gas_spent(g) == g.limit - g.remaining
Gas_used(g) == saturating_sub(Gas_spent(g), g.refunded)

\* validate_initial_tx_gas of the base engine: intrinsic and floor gas
InitialAndFloorGas(t) ==
    [initial_gas |-> IntrinsicGas, floor_gas |-> IntrinsicGas]

is_ok(r) == r \in {"Return", "Stop"}
is_ok_or_revert(r) == is_ok(r) \/ r = "Revert"

(***************************************************************************)
(* Journal of the base engine                                              *)
(***************************************************************************)
BalanceChange(a, old) == [entry |-> "BalanceChange", address |-> a, to |-> a, amount |-> old]
AccountTouched(a) == [entry |-> "AccountTouched", address |-> a, to |-> a, amount |-> 0]
NonceChange(a) == [entry |-> "NonceChange", address |-> a, to |-> a, amount |-> 0]
BalanceTransfer(f, t, v) == [entry |-> "BalanceTransfer", address |-> f, to |-> t, amount |-> v]

\* JournalTr::caller_accounting_journal_entry
caller_accounting_journal_entry(j, a, old_balance, bump_nonce) ==
    j \o <<BalanceChange(a, old_balance), AccountTouched(a)>>
      \o (IF bump_nonce THEN <<NonceChange(a)>> ELSE <<>>)

\* JournalTr::balance_incr
balance_incr(st, a, amount) ==
    [accounts |-> [st.accounts EXCEPT ![a].balance = saturating_add(@, amount),
                                      ![a].touched = TRUE],
     journal |-> st.journal \o <<BalanceChange(a, st.accounts[a].balance)>>]

\* JournalTr::transfer: Ok(Some(OutOfFunds)) leaves both balances as they were
transfer(st, from, to, amount) ==
    IF amount = 0
    THEN [accounts |-> [st.accounts EXCEPT ![to].touched = TRUE],
          journal |-> st.journal, error |-> None]
    ELSE IF st.accounts[from].balance < amount
    THEN [accounts |-> [st.accounts EXCEPT ![from].touched = TRUE],
          journal |-> st.journal, error |-> Some("OutOfFunds")]
    ELSE [accounts |-> [st.accounts EXCEPT ![from].balance = @ - amount,
                                           ![from].touched = TRUE,
                                           ![to].balance = @ + amount,
                                           ![to].touched = TRUE],
          journal |-> st.journal \o <<BalanceTransfer(from, to, amount)>>,
          error |-> None]

\* JournalEntry::revert of one entry
revert_entry(acc, e) ==
    CASE e.entry = "BalanceChange" -> [acc EXCEPT ![e.address].balance = e.amount]
      [] e.entry = "NonceChange" ->
            \* `nonce -= 1` on a u64: a release build wraps below zero
            [acc EXCEPT ![e.address].nonce = IF @ = 0 THEN U64_MAX ELSE @ - 1]
      [] e.entry = "BalanceTransfer" ->
            [acc EXCEPT ![e.address].balance = @ + e.amount,
                        ![e.to].balance = @ - e.amount]
      [] OTHER -> acc

RECURSIVE revert_all(_, _)
revert_all(acc, j) ==
    IF j = <<>> THEN acc
    ELSE revert_all(revert_entry(acc, j[Len(j)]), SubSeq(j, 1, Len(j) - 1))

\* JournalTr::discard_tx: every entry of the transaction is reverted, newest first
discard_tx(acc, j) == [a \in Addresses |-> [revert_all(acc, j)[a] EXCEPT !.touched = FALSE]]

(***************************************************************************)
(* The handler: src/handler.rs                                             *)
(***************************************************************************)
Init_handler ==
    /\ tx \in Transactions
    /\ \E b \in Balances, n \in 0 .. MaxNonce, c \in BOOLEAN :
          accounts = [a \in Addresses |->
                        [balance |-> IF a = Caller THEN b ELSE 0,
                         nonce |-> IF a = Caller THEN n ELSE 0,
                         has_code |-> IF a = Caller THEN c ELSE FALSE,
                         touched |-> FALSE]]
    /\ chain = [nonce0 |-> accounts[Caller].nonce, started |-> 1, committed |-> 0,
                calls_only |-> tx.kind = "Call"]
    /\ pre = accounts
    /\ journal = <<>>
    /\ pc = "Validate"
    /\ frame = <<>>
    /\ ctx_error = ""
    /\ pending = NoError
    /\ result = NoResult
    /\ scratch = "dirty"
    /\ commits = 0
    /\ phases = <<>>
    /\ checks = {}

\* the `?` of run_without_catch_error: the error goes to Handler::run's catch_error
Raise(e) ==
    /\ pending' = e
    /\ pc' = "CatchError"

\* mainnet.validate_env for a legacy transaction: the gas price covers the base fee
mainnet_validate_env(t) ==
    IF t.gas_price < BlockBaseFee THEN TransactionError("GasPriceLessThanBasefee")
    ELSE NoError

\* ZKsyncHandler::validate_env
validate_env(t) ==
    IF is_l1_to_l2_tx(t) THEN [error |-> NoError, checks |-> {}]
    ELSE [error |-> mainnet_validate_env(t), checks |-> {"env"}]

\* Handler::validate = validate_env, then validate_initial_tx_gas
Validate ==
    /\ pc = "Validate"
    /\ phases' = Append(phases, "Validate")
    /\ LET env == validate_env(tx)
           gas == InitialAndFloorGas(tx)
       IN /\ checks' = checks \cup env.checks
          /\ IF env.error # NoError THEN Raise(env.error)
             ELSE IF gas.initial_gas > tx.gas_limit
             THEN Raise(TransactionError("CallGasCostMoreThanGasLimit"))
             ELSE pc' = "PreExecution" /\ pending' = pending
    /\ UNCHANGED <<tx, pre, accounts, journal, frame, ctx_error, result, scratch, commits>>

\* pre_execution::validate_account_nonce_and_code with both checks enabled
validate_account_nonce_and_code(info, tx_nonce) ==
    IF info.has_code THEN TransactionError("RejectCallerWithCode")
    ELSE IF tx_nonce > info.nonce THEN TransactionError("NonceTooHigh")
    ELSE IF tx_nonce < info.nonce THEN TransactionError("NonceTooLow")
    ELSE NoError

\* a plausible slip: the guard is inverted, the check hits deposits only
lack_of_funds_inverted_guard(t, new_balance) ==
    is_l1_to_l2_tx(t) /\ max_balance_spending(t) > new_balance

\* the funds check: skipped for deposit transactions
lack_of_funds(t, new_balance) ==
    ~is_l1_to_l2_tx(t) /\ max_balance_spending(t) > new_balance

\* ZKsyncHandler::validate_against_state_and_deduct_caller
validate_against_state_and_deduct_caller(t, acc, j) ==
    LET l1l2 == is_l1_to_l2_tx(t)
        mint == UnwrapOr(t.mint, 0)
        info == acc[t.caller]
        nonce_code == IF ~l1l2 THEN validate_account_nonce_and_code(info, t.nonce)
                      ELSE NoError
        ran == IF ~l1l2 THEN {"nonce_code"} ELSE {}
        old_balance == info.balance
        new_balance == saturating_add(info.balance, mint)
        gas_balance_spending == effective_balance_spending(t, BlockBaseFee) - t.value
        bump == ~l1l2 /\ t.kind = "Call"
    IN IF nonce_code # NoError
       THEN [error |-> nonce_code, accounts |-> acc, journal |-> j, checks |-> ran]
       ELSE IF lack_of_funds(t, new_balance)
       THEN [error |-> TransactionError("LackOfFundForMaxFee"), accounts |-> acc,
             journal |-> j, checks |-> ran \cup {"funds"}]
       ELSE [error |-> NoError,
             accounts |-> [acc EXCEPT
                 ![t.caller].touched = TRUE,
                 ![t.caller].balance = saturating_sub(new_balance, gas_balance_spending),
                 ![t.caller].nonce = IF bump THEN @ + 1 ELSE @],
             journal |-> caller_accounting_journal_entry(j, t.caller, old_balance,
                                                         t.kind = "Call"),
             checks |-> ran \cup (IF l1l2 THEN {} ELSE {"funds"})]

\* a plausible slip: the adjustment's error is dropped and the run goes on
PreExecution_ignoring_error ==
    /\ pc = "PreExecution"
    /\ phases' = Append(phases, "PreExecution")
    /\ LET r == validate_against_state_and_deduct_caller(tx, accounts, journal)
       IN /\ checks' = checks \cup r.checks
          /\ accounts' = r.accounts
          /\ journal' = r.journal
          /\ pc' = "Execution"
          /\ pending' = pending
    /\ UNCHANGED <<tx, pre, frame, ctx_error, result, scratch, commits>>

\* Handler::pre_execution
PreExecution ==
    /\ pc = "PreExecution"
    /\ phases' = Append(phases, "PreExecution")
    /\ LET r == validate_against_state_and_deduct_caller(tx, accounts, journal)
       IN /\ checks' = checks \cup r.checks
          /\ accounts' = r.accounts
          /\ journal' = r.journal
          /\ IF r.error # NoError THEN Raise(r.error)
             ELSE pc' = "Execution" /\ pending' = pending
    /\ UNCHANGED <<tx, pre, frame, ctx_error, result, scratch, commits>>

\* Handler::last_frame_result of the base engine
last_frame_result(t, fr) ==
    LET g0 == Gas_new_spent(t.gas_limit)
        g1 == IF is_ok_or_revert(fr.result) THEN Gas_erase_cost(g0, fr.gas.remaining) ELSE g0
        g2 == IF is_ok(fr.result) THEN [g1 EXCEPT !.refunded = fr.gas.refunded] ELSE g1
    IN [fr EXCEPT !.gas = g2]

FrameResult(r, limit, remaining, refunded) ==
    [result |-> r, output |-> <<>>,
     gas |-> [limit |-> limit, remaining |-> remaining, refunded |-> refunded]]

\* a plausible slip: the override is not consulted, the whole limit is spent
forced_fail_frame_no_override(t) ==
    last_frame_result(t, [FrameResult("Revert", 0, 0, 0) EXCEPT
                             !.gas = Gas_new_spent(t.gas_limit)])

\* the forced-fail short-circuit of run_without_catch_error
forced_fail_frame(t) ==
    LET gas_limit == t.gas_limit
        gas_used == UnwrapOr(t.gas_used_override, gas_limit)
        used == Min(gas_used, gas_limit)
        unused == gas_limit - used
        fr == [FrameResult("Revert", 0, 0, 0) EXCEPT
                  !.gas = Gas_erase_cost(Gas_new_spent(gas_limit), unused)]
    IN last_frame_result(t, fr)

ExecutionForcedFail ==
    /\ pc = "Execution"
    /\ tx.force_fail
    /\ phases' = Append(phases, "ForcedFail")
    /\ frame' = <<forced_fail_frame(tx)>>
    /\ pc' = "PostExecution"
    /\ UNCHANGED <<tx, pre, accounts, journal, ctx_error, pending, result, scratch, commits, checks>>

\* what the first frame of the base engine does to the journal before the
\* interpreter runs: a CREATE bumps the caller's nonce, then the value moves
first_frame(t, acc, j, moved) ==
    LET st0 == [accounts |-> acc, journal |-> j]
        st1 == IF t.kind = "Create"
               THEN [accounts |-> [acc EXCEPT ![t.caller].nonce = @ + 1],
                     journal |-> j \o <<NonceChange(t.caller)>>]
               ELSE st0
    IN IF moved THEN transfer(st1, t.caller, Target, t.value)
       ELSE [accounts |-> st1.accounts, journal |-> st1.journal, error |-> None]

\* Handler::execution of the base engine: the interpreter is outside the
\* model, its outcome is any of the results a top-level frame can end with
Execution ==
    /\ pc = "Execution"
    /\ ~tx.force_fail
    /\ phases' = Append(phases, "Execution")
    /\ LET exec_gas == tx.gas_limit - InitialAndFloorGas(tx).initial_gas
       IN IF accounts[tx.caller].balance < tx.value
          THEN /\ frame' = <<last_frame_result(tx, FrameResult("OutOfFunds", exec_gas, exec_gas, 0))>>
               /\ UNCHANGED <<accounts, journal, ctx_error>>
          ELSE \E r \in {"Return", "Revert", "OutOfGas", "FatalExternalError"},
                  rem \in 0 .. exec_gas, ref \in 0 .. MaxRefund, e \in {"Db", "Custom"} :
                 /\ r # "Return" => ref = 0
                 /\ r \notin {"Return", "Revert"} => rem = 0
                 /\ r # "FatalExternalError" => e = "Db"
                 /\ frame' = <<last_frame_result(tx, FrameResult(r, exec_gas, rem, ref))>>
                 /\ ctx_error' = IF r = "FatalExternalError" THEN e ELSE ctx_error
                 /\ LET st == first_frame(tx, accounts, journal, r = "Return")
                    IN accounts' = st.accounts /\ journal' = st.journal
    /\ pc' = "PostExecution"
    /\ UNCHANGED <<tx, pre, pending, result, scratch, commits, checks>>

\* post_execution::refund of the base engine (London: at most a fifth of the
\* gas spent is refunded); the EIP-7702 refund of these transactions is 0
refund(fr, eip7702_refund) ==
    [fr EXCEPT !.gas.refunded = Min(@ + eip7702_refund, Gas_spent(fr.gas) \div 5)]

\* post_execution::eip7623_check_gas_floor of the base engine
eip7623_check_gas_floor(fr, floor_gas) ==
    IF Gas_used(fr.gas) < floor_gas
    THEN [fr EXCEPT !.gas.remaining = fr.gas.limit - floor_gas, !.gas.refunded = 0]
    ELSE fr

\* a plausible slip: the execution's refund survives the rewrite
override_gas_keeps_refund(t, fr) ==
    LET used == Min(t.gas_used_override[1], t.gas_limit)
    IN [fr EXCEPT !.gas.remaining = t.gas_limit - used]

\* the rewrite of the Gas object when gas_used_override is set
override_gas(t, fr) ==
    LET gas_limit == t.gas_limit
        used == Min(t.gas_used_override[1], gas_limit)
        unused == gas_limit - used
    IN [fr EXCEPT !.gas = Gas_erase_cost(Gas_new_spent(gas_limit), unused)]

\* the refund recipient's share: mint - value - spent_fee or mint - spent_fee
additional_refund(t, fr) ==
    LET spent_fee == Gas_spent(fr.gas) * effective_gas_price(t, BlockBaseFee)
        mint == UnwrapOr(t.mint, 0)
    IN IF is_ok(fr.result)
       THEN wrapping_sub(wrapping_sub(mint, t.value), spent_fee)
       ELSE wrapping_sub(mint, spent_fee)

\* ZKsyncHandler::reimburse_caller; "panic" when the refund recipient is missing
reimburse_caller(t, fr, st) ==
    LET price == effective_gas_price(t, BlockBaseFee)
        st1 == balance_incr(st, t.caller, price * (fr.gas.remaining + fr.gas.refunded))
    IN IF ~is_l1_to_l2_tx(t)
       THEN [accounts |-> st1.accounts, journal |-> st1.journal, panic |-> FALSE]
       ELSE IF t.refund_recipient = None
       THEN [accounts |-> st1.accounts, journal |-> st1.journal, panic |-> TRUE]
       ELSE LET st2 == transfer(st1, t.caller, t.refund_recipient[1], additional_refund(t, fr))
            IN [accounts |-> st2.accounts, journal |-> st2.journal, panic |-> FALSE]

\* a plausible slip: the reward is taken on the gas spent, the refund not deducted
reward_beneficiary_on_spent(t, fr, st) ==
    balance_incr(st, Beneficiary, effective_gas_price(t, BlockBaseFee) * Gas_spent(fr.gas))

\* ZKsyncHandler::reward_beneficiary
reward_beneficiary(t, fr, st) ==
    balance_incr(st, Beneficiary, effective_gas_price(t, BlockBaseFee) * Gas_used(fr.gas))

\* the gas accounting of ZKsyncHandler::post_execution, before the payments
post_execution_gas(t, fr) ==
    IF IsSome(t.gas_used_override) THEN override_gas(t, fr)
    ELSE eip7623_check_gas_floor(refund(fr, 0), InitialAndFloorGas(t).floor_gas)

\* ZKsyncHandler::post_execution
PostExecution ==
    /\ pc = "PostExecution"
    /\ phases' = Append(phases, "PostExecution")
    /\ LET fr == post_execution_gas(tx, frame[1])
           st1 == reimburse_caller(tx, fr, [accounts |-> accounts, journal |-> journal])
           st2 == reward_beneficiary(tx, fr, st1)
       IN /\ frame' = <<fr>>
          /\ IF st1.panic
             THEN /\ accounts' = st1.accounts
                  /\ journal' = st1.journal
                  /\ result' = [NoResult EXCEPT !.tag = "Panic"]
                  /\ pc' = "Done"
             ELSE /\ accounts' = st2.accounts
                  /\ journal' = st2.journal
                  /\ result' = result
                  /\ pc' = "Commit"
    /\ UNCHANGED <<tx, pre, ctx_error, pending, scratch, commits, checks>>

\* a plausible slip: every halt is reported as a failed deposit
output_failed_deposit(fr) ==
    LET outcome == IF is_ok(fr.result) THEN "Success"
                   ELSE IF fr.result = "Revert" THEN "Revert" ELSE "Halt"
    IN [tag |-> "Ok", outcome |-> outcome,
        reason |-> IF outcome = "Halt" THEN ZkHaltReason_FailedDeposit ELSE <<>>,
        gas_used |-> Gas_used(fr.gas),
        gas_refunded |-> IF outcome = "Success" THEN fr.gas.refunded ELSE 0,
        error |-> NoError]

\* post_execution::output of the base engine, then map_haltreason(ZkHaltReason::Base)
output(fr) ==
    LET outcome == IF is_ok(fr.result) THEN "Success"
                   ELSE IF fr.result = "Revert" THEN "Revert" ELSE "Halt"
    IN [tag |-> "Ok", outcome |-> outcome,
        reason |-> IF outcome = "Halt" THEN ZkHaltReason_Base(fr.result) ELSE <<>>,
        gas_used |-> Gas_used(fr.gas),
        gas_refunded |-> IF outcome = "Success" THEN fr.gas.refunded ELSE 0,
        error |-> NoError]

\* a plausible slip: the queued error is dropped and the journal committed
Commit_without_error_check ==
    /\ pc = "Commit"
    /\ phases' = Append(phases, "Commit")
    /\ ctx_error' = ""
    /\ result' = output(frame[1])
    /\ journal' = <<>>
    /\ commits' = commits + 1
    /\ scratch' = "clear"
    /\ pc' = "Done"
    /\ UNCHANGED <<accounts, pending, tx, pre, frame, checks>>

\* ZKsyncHandler::execution_result
Commit ==
    /\ pc = "Commit"
    /\ phases' = Append(phases, "Commit")
    /\ ctx_error' = ""
    /\ IF ctx_error = "Db"
       THEN Raise(DatabaseError) /\ UNCHANGED <<accounts, journal, result, scratch, commits>>
       ELSE IF ctx_error = "Custom"
       THEN Raise(CustomError) /\ UNCHANGED <<accounts, journal, result, scratch, commits>>
       ELSE /\ result' = output(frame[1])
            /\ journal' = <<>>
            /\ commits' = commits + 1
            /\ scratch' = "clear"
            /\ pc' = "Done"
            /\ UNCHANGED <<accounts, pending>>
    /\ UNCHANGED <<tx, pre, frame, checks>>

\* Handler::catch_error: ZKsyncHandler does not override it, so Handler::run
\* ends with the base engine's: clear the scratch state, discard the journal,
\* return the error
catch_error(t, e, acc, j) ==
    [accounts |-> discard_tx(acc, j),
     result |-> [NoResult EXCEPT !.tag = "Err", !.error = e]]

CatchError ==
    /\ pc = "CatchError"
    /\ phases' = Append(phases, "CatchError")
    /\ LET r == catch_error(tx, pending, accounts, journal)
       IN /\ accounts' = r.accounts
          /\ result' = r.result
    /\ journal' = <<>>
    /\ scratch' = "clear"
    /\ pc' = "Done"
    /\ UNCHANGED <<tx, pre, frame, ctx_error, pending, commits, checks>>

Next_handler ==
    /\ \/ Validate
       \/ PreExecution
       \/ ExecutionForcedFail
       \/ Execution
       \/ PostExecution
       \/ Commit
       \/ CatchError
    /\ UNCHANGED <<chain, dcall, mcall, bcall, l1, prun>>

\* the next transaction of the same caller: an ordinary CALL carrying the
\* caller's current nonce or a stale one, run on the accounts as the last
\* transaction left them
MaxChain == 2          \* transactions of one caller run one after the other
ChainTransactions(nonce) ==
    { [t EXCEPT !.nonce = n] : n \in {nonce, TxNonce},
        t \in { u \in Transactions : /\ ~is_l1_to_l2_tx(u) /\ u.kind = "Call"
                                      /\ u.mint = None /\ u.gas_used_override = None } }

NextTransaction ==
    /\ pc = "Done"
    /\ result.tag \in {"Ok", "Err"}
    /\ chain.started < MaxChain
    /\ tx' \in ChainTransactions(accounts[Caller].nonce)
    /\ chain' = [chain EXCEPT !.started = @ + 1,
                              !.committed = IF result.tag = "Ok" THEN @ + 1 ELSE @]
    /\ pre' = accounts
    /\ journal' = <<>>
    /\ pc' = "Validate"
    /\ frame' = <<>>
    /\ ctx_error' = ""
    /\ pending' = NoError
    /\ result' = NoResult
    /\ scratch' = "dirty"
    /\ commits' = 0
    /\ phases' = <<>>
    /\ checks' = {}
    /\ UNCHANGED <<accounts, dcall, mcall, bcall, l1, prun>>

Idle == [state |-> "idle"]

Init ==
    /\ Init_handler
    /\ dcall = Idle
    /\ mcall = Idle
    /\ bcall = Idle
    /\ l1 = Idle
    /\ prun = Idle

Next == Next_handler

Spec == Init /\ [][Next]_vars

\* ordinary transactions of one caller, one after the other
InitChain == Init /\ ~is_l1_to_l2_tx(tx)
NextChain == Next_handler \/ NextTransaction
SpecChain == InitChain /\ [][NextChain]_vars

(***************************************************************************)
(* Calldata.  A byte string is [head, len, fill]: the bytes of head, then   *)
(* fill repeated up to len bytes; indices count from 0 as in the program.  *)
(***************************************************************************)
RECURSIVE TrimFill(_, _)
TrimFill(h, fill) ==
    IF h # <<>> /\ h[Len(h)] = fill THEN TrimFill(SubSeq(h, 1, Len(h) - 1), fill) ELSE h

Bytes(h, n, fill) == [head |-> TrimFill(h, fill), len |-> n, fill |-> fill]
BytesLen(b) == b.len
At(b, i) == IF i < Len(b.head) THEN b.head[i + 1] ELSE b.fill
\* b[lo..hi], for lo <= hi <= b.len
Slice(b, lo, hi) ==
    Bytes(IF lo < Len(b.head) THEN SubSeq(b.head, lo + 1, Min(hi, Len(b.head))) ELSE <<>>,
          hi - lo, b.fill)
AnyNonZero(b, lo, hi) == \E i \in lo .. hi - 1 : At(b, i) # 0

Zeros(n) == [i \in 1 .. n |-> 0]
\* the 32-byte big-endian word of a number below 2^31
Word(v) == Zeros(28) \o <<(v \div 16777216) % 256, (v \div 65536) % 256,
                          (v \div 256) % 256, v % 256>>

\* U256::from_be_slice(w).try_into::<usize>(): the value when it is below
\* 2^31 ("small"), its distance to 2^64 when that is at most 2^31 ("top"),
\* "mid" for the other 64-bit values, and no value above 64 bits
usize_from_be_slice(w) ==
    IF AnyNonZero(w, 0, 24) THEN [ok |-> FALSE, cls |-> "", val |-> 0]
    ELSE IF ~AnyNonZero(w, 24, 28) /\ At(w, 28) < 128
    THEN [ok |-> TRUE, cls |-> "small",
          val |-> At(w, 28) * 16777216 + At(w, 29) * 65536 + At(w, 30) * 256 + At(w, 31)]
    ELSE IF (\A i \in 24 .. 27 : At(w, i) = 255) /\ At(w, 28) >= 128
    THEN [ok |-> TRUE, cls |-> "top",
          val |-> (255 - At(w, 28)) * 16777216 + (255 - At(w, 29)) * 65536
                    + (255 - At(w, 30)) * 256 + (256 - At(w, 31))]
    ELSE [ok |-> TRUE, cls |-> "mid", val |-> 0]

(***************************************************************************)
(* Contract Deployer: src/precompiles/deployer.rs                          *)
(***************************************************************************)
SET_DEPLOYED_CODE_EVM_SELECTOR == <<18, 35, 173, 199>>
CONTRACT_DEPLOYER_ADDRESS == 32774
L2_GENESIS_UPGRADE_ADDRESS == 65537
MAX_CODE_SIZE == 24576

InterpreterResult(r, out, gas) == [result |-> r, output |-> out, gas |-> gas]
Gas_new(limit) == [limit |-> limit, remaining |-> limit, refunded |-> 0]
Panicked == InterpreterResult("Panic", <<>>, Gas_new(0))

\* a plausible slip: the caller check compares with the deployer's own address
is_upgrade_caller_self(caller) == caller = CONTRACT_DEPLOYER_ADDRESS

\* `caller != L2_GENESIS_UPGRADE_ADDRESS` rejects
is_upgrade_caller(caller) == caller = L2_GENESIS_UPGRADE_ADDRESS

\* a plausible slip: the bound is exclusive
code_rejected_exclusive(bytecode) ==
    (BytesLen(bytecode) # 0 /\ At(bytecode, 0) = 239) \/ BytesLen(bytecode) >= MAX_CODE_SIZE

\* EIP-3541 and EIP-158: code starting with 0xEF or longer than MAX_CODE_SIZE
code_rejected(bytecode) ==
    (BytesLen(bytecode) # 0 /\ At(bytecode, 0) = 239) \/ BytesLen(bytecode) > MAX_CODE_SIZE

\* the body of the selector arm once static flag and caller have passed;
\* cd is the calldata after the selector
set_deployed_code_evm(gas_limit, cd) ==
    LET revert == InterpreterResult("Revert", <<>>, Gas_new(gas_limit))
    IN IF BytesLen(cd) < 64 THEN revert
       ELSE IF AnyNonZero(cd, 0, 12) THEN revert
       ELSE LET bytecode_offset == usize_from_be_slice(Slice(cd, 32, 64))
            IN IF ~bytecode_offset.ok THEN revert
               \* checked_add(32) fails within 32 of the top of usize
               ELSE IF bytecode_offset.cls = "top" /\ bytecode_offset.val <= 32 THEN revert
               \* the length word is sliced without a bounds check
               ELSE IF bytecode_offset.cls # "small" THEN Panicked
               ELSE LET bytecode_length_encoding_end == bytecode_offset.val + 32
                    IN IF bytecode_length_encoding_end > BytesLen(cd) THEN Panicked
                       ELSE LET bytecode_length ==
                                    usize_from_be_slice(Slice(cd, bytecode_length_encoding_end - 32,
                                                              bytecode_length_encoding_end))
                            IN IF ~bytecode_length.ok THEN revert
                               \* end + length overflows usize: a debug build panics
                               \* on the addition, a release build on the slice
                               ELSE IF bytecode_length.cls = "top"
                                       /\ bytecode_length.val <= bytecode_length_encoding_end
                               THEN Panicked
                               ELSE IF bytecode_length.cls # "small" THEN revert
                               ELSE IF BytesLen(cd) < bytecode_length_encoding_end + bytecode_length.val
                               THEN revert
                               ELSE IF code_rejected(Slice(cd, bytecode_length_encoding_end,
                                            bytecode_length_encoding_end + bytecode_length.val))
                               THEN revert
                               ELSE InterpreterResult("Return", <<>>, Gas_new(gas_limit))

\* deployer_precompile_call
deployer_precompile_call(caller, is_static, gas_limit, calldata) ==
    LET revert == InterpreterResult("Revert", <<>>, Gas_new(gas_limit))
    IN IF BytesLen(calldata) < 4 THEN revert
       ELSE IF <<At(calldata, 0), At(calldata, 1), At(calldata, 2), At(calldata, 3)>>
                 # SET_DEPLOYED_CODE_EVM_SELECTOR THEN revert
       ELSE IF is_static THEN revert
       ELSE IF ~is_upgrade_caller(caller) THEN revert
       ELSE set_deployed_code_evm(gas_limit, Slice(calldata, 4, BytesLen(calldata)))

\* the calldata of setDeployedCodeEVM(address,bytes) calls, well formed and not;
\* the address argument is 0x...01
SelectorChoices == {SET_DEPLOYED_CODE_EVM_SELECTOR, <<18, 35, 173, 200>>}
HugeWord == <<1>> \o Zeros(31)
MidWord == Zeros(27) \o <<1, 0, 0, 0, 0>>
TopWord == Zeros(24) \o [i \in 1 .. 8 |-> 255]
MaxCodeLen == 2        \* largest of the short code lengths
CodeLens == (0 .. MaxCodeLen) \cup {MAX_CODE_SIZE - 1, MAX_CODE_SIZE, MAX_CODE_SIZE + 1}
OffsetWords == {Word(64), Word(96), Word(0), Word(4096), HugeWord, MidWord, TopWord}
LengthWords == {Word(n) : n \in CodeLens} \cup {HugeWord, MidWord, TopWord}

AddressWord(pad) == <<pad>> \o Zeros(11) \o SubSeq(Word(1), 13, 32)

DeployerBody(sel, pad, ow, lw, first, body) ==
    Bytes(sel \o AddressWord(pad) \o ow \o (IF ow = Word(96) THEN Zeros(32) ELSE <<>>)
              \o lw \o (IF body > 0 THEN <<first>> ELSE <<>>),
          4 + 64 + (IF ow = Word(96) THEN 32 ELSE 0) + 32 + body, 0)

DeployerCalldata ==
    UNION { { DeployerBody(sel, pad, ow, lw, first, body) :
                sel \in SelectorChoices, pad \in {0, 1}, ow \in OffsetWords,
                first \in {0, 96, 239},
                body \in {n \in CodeLens : lw \in {Word(n), Word(n + 1), HugeWord}} } :
            lw \in LengthWords }
    \cup { Bytes(SubSeq(SET_DEPLOYED_CODE_EVM_SELECTOR \o Zeros(64), 1, n), n, 0) :
             n \in {0, 3, 4, 36, 67} }

DeployerCallers == {L2_GENESIS_UPGRADE_ADDRESS, CONTRACT_DEPLOYER_ADDRESS, 0}
MaxCallGas == 1        \* largest gas limit handed to the deployer

MaxDeployValue == 1    \* largest value sent along with a deployer call

Init_deployer_call ==
    dcall \in [state : {"ready"}, caller : DeployerCallers, is_static : BOOLEAN,
               gas_limit : 0 .. MaxCallGas, calldata : DeployerCalldata,
               result : {InterpreterResult("", <<>>, Gas_new(0))},
               code : {<<>>}, touched : {FALSE}, warm : {FALSE},
               call_value : 0 .. MaxDeployValue]

\* the dispatch layer hands the call to deployer_precompile_call, which has no
\* access to the journal: the target account's code, touched mark and warmth
\* stay as they are; the call value is not among its parameters
DeployerCall ==
    /\ dcall.state = "ready"
    /\ dcall' = [dcall EXCEPT !.state = "done",
                              !.result = deployer_precompile_call(dcall.caller, dcall.is_static,
                                                                  dcall.gas_limit, dcall.calldata)]
    /\ UNCHANGED <<hvars, mcall, bcall, l1, prun>>

(***************************************************************************)
(* L1 Messenger: src/precompiles/l1_messenger.rs                           *)
(***************************************************************************)
SEND_TO_L1_SELECTOR == <<98, 248, 75, 36>>
L1_MESSAGE_SENT_TOPIC ==
    <<58, 54, 228, 114, 145, 244, 32, 31, 175, 19, 127, 171, 8, 29, 146, 41,
      91, 206, 45, 83, 190, 44, 108, 166, 139, 168, 44, 127, 170, 156, 226, 65>>
L1_MESSENGER_ADDRESS == 32776

\* gas schedule of the base engine's interpreter
KECCAK256 == 30
KECCAK256WORD == 6
LOG == 375
LOGTOPIC == 375
LOGDATA == 8
MESSENGER_OVERHEAD == 10

\* Gas::record_cost
record_cost(g, cost) ==
    IF g.remaining >= cost THEN [ok |-> TRUE, gas |-> [g EXCEPT !.remaining = @ - cost]]
    ELSE [ok |-> FALSE, gas |-> g]

\* keccak256, as an injective function of the byte string
keccak256(b) == <<"keccak256", b>>

\* a plausible slip: the address is stored in the high 20 bytes
b160_to_b256_right_padded(addr) == SubSeq(Word(addr), 13, 32) \o Zeros(12)

\* pad left, store the address in the low 20 bytes
b160_to_b256(addr) == Zeros(12) \o SubSeq(Word(addr), 13, 32)

\* U256::from_be_slice(w).try_into::<u32>(): the value when below 2^31
u32_from_be_slice(w) ==
    IF AnyNonZero(w, 0, 28) THEN [ok |-> FALSE, cls |-> "", val |-> 0]
    ELSE IF At(w, 28) < 128
    THEN [ok |-> TRUE, cls |-> "small",
          val |-> At(w, 28) * 16777216 + At(w, 29) * 65536 + At(w, 30) * 256 + At(w, 31)]
    ELSE [ok |-> TRUE, cls |-> "big", val |-> 0]

\* a plausible slip: the word count rounds down
needed_gas_words_floor(n) ==
    LET words == n \div 32
        keccak256_gas == KECCAK256 + KECCAK256WORD * words
        log_gas == LOG + LOGTOPIC * 3 + LOGDATA * n
    IN keccak256_gas + log_gas

\* the gas of hashing and logging a message of n bytes
needed_gas(n) ==
    LET words == (n + 31) \div 32
        keccak256_gas == KECCAK256 + KECCAK256WORD * words
        log_gas == LOG + LOGTOPIC * 3 + LOGDATA * n
    IN keccak256_gas + log_gas

\* a plausible slip: calldata that is not a multiple of 32 bytes is let through
l1_messenger_precompile_call_any_length(logs, caller, is_static, gas_limit, call_value, calldata) ==
    LET oog_error == [result |-> InterpreterResult("OutOfGas", <<>>, Gas_new(0)), logs |-> logs]
        \* the closure copies the Gas object before anything is charged
        error == [result |-> InterpreterResult("Revert", <<>>, Gas_new(gas_limit)), logs |-> logs]
        charged == record_cost(Gas_new(gas_limit), MESSENGER_OVERHEAD)
    IN IF ~charged.ok THEN oog_error
       ELSE IF BytesLen(calldata) < 4 THEN error
       ELSE IF <<At(calldata, 0), At(calldata, 1), At(calldata, 2), At(calldata, 3)>>
                 # SEND_TO_L1_SELECTOR THEN error
       ELSE IF call_value # 0 THEN error
       ELSE IF is_static THEN error
       ELSE LET cd == Slice(calldata, 4, BytesLen(calldata))
                abi_encoded_message_len == BytesLen(cd)
            IN IF abi_encoded_message_len < 32 THEN error
               ELSE LET message_offset == u32_from_be_slice(Slice(cd, 0, 32))
                    IN IF ~message_offset.ok THEN error
                       ELSE IF message_offset.cls # "small" \/ message_offset.val # 32 THEN error
                       ELSE LET length_encoding_end == message_offset.val + 32
                            IN IF abi_encoded_message_len < length_encoding_end THEN error
                               ELSE LET length == u32_from_be_slice(
                                            Slice(cd, length_encoding_end - 32, length_encoding_end))
                                    IN IF ~length.ok THEN error
                                       \* checked_add fails or the end lies past the calldata
                                       ELSE IF length.cls # "small" THEN error
                                       ELSE IF abi_encoded_message_len < length_encoding_end + length.val
                                       THEN error
                                       ELSE IF FALSE THEN error
                                       ELSE LET message == Slice(cd, length_encoding_end,
                                                                 length_encoding_end + length.val)
                                                paid == record_cost(charged.gas,
                                                                    needed_gas(BytesLen(message)))
                                                message_hash == keccak256(message)
                                                log == [address |-> L1_MESSENGER_ADDRESS,
                                                        topics |-> <<L1_MESSAGE_SENT_TOPIC,
                                                                     b160_to_b256(caller),
                                                                     message_hash>>,
                                                        data |-> cd]
                                            IN IF ~paid.ok THEN oog_error
                                               ELSE [result |-> InterpreterResult("Return",
                                                                   message_hash, paid.gas),
                                                     logs |-> Append(logs, log)]

\* l1_messenger_precompile_call; logs is the journal's log list
l1_messenger_precompile_call(logs, caller, is_static, gas_limit, call_value, calldata) ==
    LET oog_error == [result |-> InterpreterResult("OutOfGas", <<>>, Gas_new(0)), logs |-> logs]
        \* the closure copies the Gas object before anything is charged
        error == [result |-> InterpreterResult("Revert", <<>>, Gas_new(gas_limit)), logs |-> logs]
        charged == record_cost(Gas_new(gas_limit), MESSENGER_OVERHEAD)
    IN IF ~charged.ok THEN oog_error
       ELSE IF BytesLen(calldata) < 4 THEN error
       ELSE IF <<At(calldata, 0), At(calldata, 1), At(calldata, 2), At(calldata, 3)>>
                 # SEND_TO_L1_SELECTOR THEN error
       ELSE IF call_value # 0 THEN error
       ELSE IF is_static THEN error
       ELSE LET cd == Slice(calldata, 4, BytesLen(calldata))
                abi_encoded_message_len == BytesLen(cd)
            IN IF abi_encoded_message_len < 32 THEN error
               ELSE LET message_offset == u32_from_be_slice(Slice(cd, 0, 32))
                    IN IF ~message_offset.ok THEN error
                       ELSE IF message_offset.cls # "small" \/ message_offset.val # 32 THEN error
                       ELSE LET length_encoding_end == message_offset.val + 32
                            IN IF abi_encoded_message_len < length_encoding_end THEN error
                               ELSE LET length == u32_from_be_slice(
                                            Slice(cd, length_encoding_end - 32, length_encoding_end))
                                    IN IF ~length.ok THEN error
                                       \* checked_add fails or the end lies past the calldata
                                       ELSE IF length.cls # "small" THEN error
                                       ELSE IF abi_encoded_message_len < length_encoding_end + length.val
                                       THEN error
                                       ELSE IF abi_encoded_message_len % 32 # 0 THEN error
                                       ELSE LET message == Slice(cd, length_encoding_end,
                                                                 length_encoding_end + length.val)
                                                paid == record_cost(charged.gas,
                                                                    needed_gas(BytesLen(message)))
                                                message_hash == keccak256(message)
                                                log == [address |-> L1_MESSENGER_ADDRESS,
                                                        topics |-> <<L1_MESSAGE_SENT_TOPIC,
                                                                     b160_to_b256(caller),
                                                                     message_hash>>,
                                                        data |-> cd]
                                            IN IF ~paid.ok THEN oog_error
                                               ELSE [result |-> InterpreterResult("Return",
                                                                   message_hash, paid.gas),
                                                     logs |-> Append(logs, log)]

\* the calldata of sendToL1(bytes) calls, well formed and not: the message
\* is n bytes, the calldata carries `area` bytes after the length word
MaxMsgLen == 33        \* longest message
MaxSpareGas == 1       \* most gas given beyond what a call needs
BigWord == Zeros(28) \o <<128, 0, 0, 0>>
Pad32(n) == ((n + 31) \div 32) * 32
MessageAreas(n) == {Pad32(n), Pad32(n) + 32, n} \cup (IF n > 32 THEN {Pad32(n) - 32} ELSE {})
FormulaGas(n) == KECCAK256 + KECCAK256WORD * ((n + 31) \div 32) + LOG + 3 * LOGTOPIC + LOGDATA * n
MessengerGasLimits(n) ==
    {0, MESSENGER_OVERHEAD - 1, MESSENGER_OVERHEAD, FormulaGas(n) - 1, FormulaGas(n)}
    \cup {MESSENGER_OVERHEAD + FormulaGas(n) + d : d \in -1 .. MaxSpareGas}

MessengerBody(sel, ow, lw, first, area) ==
    Bytes(sel \o ow \o lw \o (IF area > 0 THEN <<first>> ELSE <<>>), 4 + 64 + area, 0)

MessengerCalls ==
    UNION { [state : {"ready"}, caller : {CONTRACT_DEPLOYER_ADDRESS, 0}, is_static : BOOLEAN,
             gas_limit : MessengerGasLimits(n), call_value : {0, 1},
             calldata : { MessengerBody(sel, ow, lw, first, area) :
                            sel \in {SEND_TO_L1_SELECTOR, <<98, 248, 75, 37>>},
                            ow \in {Word(32), Word(64), HugeWord},
                            lw \in {Word(n), BigWord, HugeWord},
                            first \in {0, 170}, area \in MessageAreas(n) }
                        \cup { Bytes(SubSeq(SEND_TO_L1_SELECTOR \o Word(32), 1, k), k, 0) :
                                 k \in {0, 3, 4, 35, 36} },
             result : {InterpreterResult("", <<>>, Gas_new(0))},
             logs : {<<>>}] : n \in 0 .. MaxMsgLen }

Init_messenger_call == mcall \in MessengerCalls

\* the dispatch layer hands the call to l1_messenger_precompile_call
MessengerCall ==
    /\ mcall.state = "ready"
    /\ LET r == l1_messenger_precompile_call(mcall.logs, mcall.caller, mcall.is_static,
                                             mcall.gas_limit, mcall.call_value, mcall.calldata)
       IN mcall' = [mcall EXCEPT !.state = "done", !.result = r.result, !.logs = r.logs]
    /\ UNCHANGED <<hvars, dcall, bcall, l1, prun>>

(***************************************************************************)
(* L2 Base Token: src/precompiles/l2_base_token.rs                         *)
(***************************************************************************)
L2_BASE_TOKEN_ADDRESS == 32778
WITHDRAW_SELECTOR == <<81, 207, 248, 217>>
WITHDRAW_WITH_MESSAGE_SELECTOR == <<132, 188, 62, 176>>
FINALIZE_ETH_WITHDRAWAL_SELECTOR == <<108, 9, 96, 249>>
BASE_TOKEN_OVERHEAD == 10

\* all the bytes of a byte string
Expand(b) == b.head \o Zeros(b.len - Len(b.head))

\* the `error` closure: Revert with Gas::new(gas_limit - 10).  Below 10 the
\* u64 subtraction overflows: a build with overflow checks aborts, one
\* without wraps around
base_token_error(overflow_checks, gas_limit) ==
    IF gas_limit >= BASE_TOKEN_OVERHEAD
    THEN InterpreterResult("Revert", <<>>, Gas_new(gas_limit - BASE_TOKEN_OVERHEAD))
    ELSE IF overflow_checks THEN Panicked
    ELSE InterpreterResult("Revert", <<>>,
                           Gas_new((U64_MAX + 1) - (BASE_TOKEN_OVERHEAD - gas_limit)))

\* JournalTr::touch_account: the first touch is journaled
touch_account(st, a) ==
    IF st.token.touched THEN st
    ELSE [st EXCEPT !.token.touched = TRUE, !.journal = @ \o <<AccountTouched(a)>>]

\* warm, touch and load the token-holder account, debit the call value with
\* checked_sub and journal the balance it had before
base_token_debit(st, call_value) ==
    LET warmed == [st EXCEPT !.token.warm = TRUE]
        touched == touch_account(warmed, L2_BASE_TOKEN_ADDRESS)
        balance_before == touched.token.balance
    IN IF balance_before < call_value THEN [ok |-> FALSE, st |-> touched]
       ELSE [ok |-> TRUE,
             st |-> [touched EXCEPT
                       !.token.balance = balance_before - call_value,
                       !.journal = caller_accounting_journal_entry(
                                       @, L2_BASE_TOKEN_ADDRESS, balance_before, FALSE)]]

\* a plausible slip: the message is not padded to a multiple of 32 bytes
withdraw_message_unpadded(receiver, call_value) ==
    Bytes(Word(32) \o Word(56) \o FINALIZE_ETH_WITHDRAWAL_SELECTOR \o Expand(receiver)
            \o Word(call_value), 120, 0)

\* the 128-byte message of withdraw: offset, length 56, then selector,
\* receiver and value
withdraw_message(receiver, call_value) ==
    Bytes(Word(32) \o Word(56) \o FINALIZE_ETH_WITHDRAWAL_SELECTOR \o Expand(receiver)
            \o Word(call_value), 128, 0)

\* a plausible slip: the sender is left out of the message
withdraw_with_message_message_no_sender(receiver, call_value, caller, additional_data) ==
    LET message_length == 56 + BytesLen(additional_data)
        abi_encoded_message_length == ((32 + 32 + message_length + 31) \div 32) * 32
    IN Bytes(Word(32) \o Word(message_length) \o FINALIZE_ETH_WITHDRAWAL_SELECTOR
               \o Expand(receiver) \o Word(call_value) \o Expand(additional_data),
             abi_encoded_message_length, 0)

\* the message of withdrawWithMessage: offset, length 76 + n, then selector,
\* receiver, value, sender and the additional data, zero padded to 32 bytes
withdraw_with_message_message(receiver, call_value, caller, additional_data) ==
    LET length == BytesLen(additional_data)
        message_length == 76 + length
        unpadded == 32 + 32 + message_length
        abi_encoded_message_length ==
            IF unpadded % 32 # 0 THEN unpadded + (32 - (unpadded % 32)) ELSE unpadded
    IN Bytes(Word(32) \o Word(message_length) \o FINALIZE_ETH_WITHDRAWAL_SELECTOR
               \o Expand(receiver) \o Word(call_value) \o SubSeq(Word(caller), 13, 32)
               \o Expand(additional_data),
             abi_encoded_message_length, 0)

\* l2_base_token_precompile_call; st is [token, journal], the token-holder
\* account and the journal of the context
l2_base_token_precompile_call(overflow_checks, st, caller, is_static, gas_limit, call_value, calldata) ==
    LET error(s) == [result |-> base_token_error(overflow_checks, gas_limit),
                     st |-> s, message |-> None]
        selector == <<At(calldata, 0), At(calldata, 1), At(calldata, 2), At(calldata, 3)>>
        calldata_len == BytesLen(calldata)
    IN IF calldata_len < 4 THEN error(st)
       ELSE IF selector = WITHDRAW_SELECTOR
       THEN IF is_static THEN error(st)
            ELSE IF calldata_len < 36 THEN error(st)
            ELSE LET debit == base_token_debit(st, call_value)
                 IN IF ~debit.ok THEN error(debit.st)
                    \* the address padding is checked after the debit
                    ELSE IF AnyNonZero(calldata, 4, 4 + 12) THEN error(debit.st)
                    ELSE [result |-> InterpreterResult("Return", <<>>, Gas_new(gas_limit)),
                          st |-> debit.st,
                          message |-> Some(withdraw_message(Slice(calldata, 16, 36),
                                                            call_value))]
       ELSE IF selector = WITHDRAW_WITH_MESSAGE_SELECTOR
       THEN IF is_static THEN error(st)
            ELSE IF calldata_len < 68 THEN error(st)
            ELSE LET message_offset == u32_from_be_slice(Slice(calldata, 36, 68))
                 IN IF ~message_offset.ok THEN error(st)
                    \* checked_add(36) fails or the end lies past the calldata
                    ELSE IF message_offset.cls # "small" THEN error(st)
                    ELSE LET length_encoding_end == message_offset.val + 36
                         IN IF calldata_len < length_encoding_end THEN error(st)
                            ELSE LET length == u32_from_be_slice(
                                         Slice(calldata, length_encoding_end - 32,
                                               length_encoding_end))
                                 IN IF ~length.ok THEN error(st)
                                    ELSE IF length.cls # "small" THEN error(st)
                                    ELSE IF calldata_len < length_encoding_end + length.val
                                    THEN error(st)
                                    ELSE IF AnyNonZero(calldata, 4, 4 + 12) THEN error(st)
                                    ELSE LET additional_data ==
                                                 Slice(calldata, length_encoding_end,
                                                       length_encoding_end + length.val)
                                             debit == base_token_debit(st, call_value)
                                         IN IF ~debit.ok THEN error(debit.st)
                                            ELSE [result |-> InterpreterResult(
                                                      "Return", <<>>, Gas_new(gas_limit)),
                                                  st |-> debit.st,
                                                  message |-> Some(withdraw_with_message_message(
                                                      Slice(calldata, 16, 36), call_value,
                                                      caller, additional_data))]
       ELSE error(st)

\* the calldata of withdraw(address) and withdrawWithMessage(address,bytes)
\* calls, well formed and not
MaxDataLen == 2        \* longest of the short additional data
MaxCallValue == 2      \* largest call value
DataLens == (0 .. MaxDataLen) \cup {20, 21}
AdditionalData == {Bytes(h, n, 0) : h \in {<<>>, <<171>>}, n \in DataLens} \ {Bytes(<<171>>, 0, 0)}
Receivers == {Bytes(<<222>> \o Zeros(18) \o <<173>>, 20, 0)}
TokenBalances == {0, MaxCallValue - 1}
BaseTokenGasLimits ==
    {0, BASE_TOKEN_OVERHEAD - 1, BASE_TOKEN_OVERHEAD, BASE_TOKEN_OVERHEAD + MaxSpareGas}

\* abi.encodeWithSelector(withdraw, receiver)
WithdrawCalldata(receiver) == Bytes(WITHDRAW_SELECTOR \o Zeros(12) \o Expand(receiver), 36, 0)

\* abi.encodeWithSelector(withdrawWithMessage, receiver, data)
WithdrawWithMessageCalldata(receiver, data) ==
    Bytes(WITHDRAW_WITH_MESSAGE_SELECTOR \o Zeros(12) \o Expand(receiver) \o Word(64)
            \o Word(BytesLen(data)) \o Expand(data),
          4 + 32 + 32 + 32 + Pad32(BytesLen(data)), 0)

WithdrawVariants(receiver) ==
    { Bytes(WITHDRAW_SELECTOR \o <<pad>> \o Zeros(11) \o Expand(receiver), n, 0) :
        pad \in {0, 1}, n \in {35, 36, 68} }

WithdrawWithMessageVariants(receiver, data) ==
    { Bytes(WITHDRAW_WITH_MESSAGE_SELECTOR \o <<pad>> \o Zeros(11) \o Expand(receiver) \o ow
              \o (IF ow = Word(96) THEN Zeros(32) ELSE <<>>) \o lw \o Expand(data),
            4 + 32 + 32 + (IF ow = Word(96) THEN 32 ELSE 0) + 32 + area, 0) :
        pad \in {0, 1}, ow \in {Word(64), Word(96), Word(0), HugeWord},
        lw \in {Word(BytesLen(data)), Word(BytesLen(data) + 1), HugeWord},
        area \in {Pad32(BytesLen(data)), BytesLen(data)} }

OtherBaseTokenCalldata ==
    { Bytes(SubSeq(WITHDRAW_WITH_MESSAGE_SELECTOR \o Zeros(64), 1, n), n, 0) : n \in {0, 3, 67} }
    \cup {Bytes(<<81, 207, 248, 218>>, 36, 0)}

BaseTokenCalls ==
    UNION { [state : {"ready"}, overflow_checks : BOOLEAN,
             caller : {CONTRACT_DEPLOYER_ADDRESS, 0}, is_static : BOOLEAN,
             gas_limit : BaseTokenGasLimits, call_value : 0 .. MaxCallValue,
             receiver : {receiver}, data : {data},
             calldata : WithdrawVariants(receiver)
                          \cup WithdrawWithMessageVariants(receiver, data)
                          \cup OtherBaseTokenCalldata,
             result : {InterpreterResult("", <<>>, Gas_new(0))},
             before : {[balance |-> b, touched |-> t, warm |-> FALSE]},
             st : {[token |-> [balance |-> b, touched |-> t, warm |-> FALSE],
                    journal |-> <<>>]},
             message : {None}] :
            receiver \in Receivers, data \in AdditionalData, b \in TokenBalances,
            t \in BOOLEAN }

Init_base_token_call == bcall \in BaseTokenCalls

\* the dispatch layer hands the call to l2_base_token_precompile_call
BaseTokenCall ==
    /\ bcall.state = "ready"
    /\ LET r == l2_base_token_precompile_call(bcall.overflow_checks, bcall.st, bcall.caller,
                                              bcall.is_static, bcall.gas_limit,
                                              bcall.call_value, bcall.calldata)
       IN bcall' = [bcall EXCEPT !.state = "done", !.result = r.result, !.st = r.st,
                                 !.message = r.message]
    /\ UNCHANGED <<hvars, dcall, mcall, l1, prun>>

(***************************************************************************)
(* 256-bit words of the L1 cost functions.  A word is the sequence of its  *)
(* base-100 digits, least significant first, without leading zeros, so     *)
(* that the products of the cost formulas are computed at full width.      *)
(***************************************************************************)
Limb == 10000

RECURSIVE U256_from(_)
U256_from(n) == IF n = 0 THEN <<>> ELSE <<n % Limb>> \o U256_from(n \div Limb)

RECURSIVE Normalize(_)
Normalize(a) ==
    IF a # <<>> /\ a[Len(a)] = 0 THEN Normalize(SubSeq(a, 1, Len(a) - 1)) ELSE a

RECURSIVE AddCarry(_, _, _)
AddCarry(a, b, carry) ==
    IF a = <<>> /\ b = <<>> THEN (IF carry = 0 THEN <<>> ELSE <<carry>>)
    ELSE LET x == IF a = <<>> THEN 0 ELSE a[1]
             y == IF b = <<>> THEN 0 ELSE b[1]
             sum == x + y + carry
         IN <<sum % Limb>> \o AddCarry(IF a = <<>> THEN a ELSE Tail(a),
                                       IF b = <<>> THEN b ELSE Tail(b), sum \div Limb)

RECURSIVE MulLimb(_, _, _)
MulLimb(a, d, carry) ==
    IF a = <<>> THEN U256_from(carry)
    ELSE LET p == a[1] * d + carry
         IN <<p % Limb>> \o MulLimb(Tail(a), d, p \div Limb)

RECURSIVE MulWide(_, _)
MulWide(a, b) ==
    IF a = <<>> \/ b = <<>> THEN <<>>
    ELSE IF Len(a) < Len(b) THEN MulWide(b, a)
    ELSE Normalize(AddCarry(MulLimb(a, b[1], 0), <<0>> \o MulWide(a, Tail(b)), 0))

\* a < b
RECURSIVE LessFrom(_, _, _)
LessFrom(a, b, i) ==
    IF i = 0 THEN FALSE
    ELSE IF a[i] # b[i] THEN a[i] < b[i]
    ELSE LessFrom(a, b, i - 1)

Less(a, b) ==
    IF Len(a) # Len(b) THEN Len(a) < Len(b) ELSE LessFrom(a, b, Len(a))

\* 2^256 - 1
U256_MAXIMUM ==
    <<9935, 2963, 9131, 4007, 5758, 394, 564, 6564, 9846, 3269,
      785, 6879, 5008, 7098, 4235, 6195, 3731, 892, 5792, 11>>

Saturate(a) == IF Less(U256_MAXIMUM, a) THEN U256_MAXIMUM ELSE a

\* U256::saturating_add, U256::saturating_mul
U256_saturating_add(a, b) == Saturate(AddCarry(a, b, 0))
U256_saturating_mul(a, b) == Saturate(MulWide(a, b))

\* U256::wrapping_div by a small divisor: whole limbs of the divisor drop the
\* low limbs of the dividend, the rest is long division, most significant
\* limb first
RECURSIVE DivFrom(_, _, _, _)
DivFrom(a, d, i, rem) ==
    IF i = 0 THEN <<>>
    ELSE LET cur == rem * Limb + a[i]
         IN DivFrom(a, d, i - 1, cur % d) \o <<cur \div d>>

RECURSIVE U256_wrapping_div(_, _)
U256_wrapping_div(a, d) ==
    IF a = <<>> THEN <<>>
    ELSE IF d % Limb = 0 THEN U256_wrapping_div(Tail(a), d \div Limb)
    ELSE Normalize(DivFrom(a, d, Len(a), 0))

(***************************************************************************)
(* L1 block info: src/l1block.rs                                           *)
(***************************************************************************)
NON_ZERO_BYTE_COST == 16
NON_ZERO_BYTE_MULTIPLIER_ISTANBUL == 4
STANDARD_TOKEN_COST == 4
L1_FEE_DECIMALS == 1000000

U256_ZERO == <<>>
unwrap_or_default(o) == IF o = None THEN U256_ZERO ELSE o[1]

\* L1BlockInfo::default()
L1BlockInfo_default ==
    [l2_block |-> U256_ZERO, l1_base_fee |-> U256_ZERO, l1_fee_overhead |-> None,
     l1_base_fee_scalar |-> U256_ZERO, l1_blob_base_fee |-> None,
     l1_blob_base_fee_scalar |-> None, operator_fee_scalar |-> None,
     operator_fee_constant |-> None, empty_ecotone_scalars |-> FALSE, tx_l1_cost |-> None]

\* get_tokens_in_calldata(input, true): zero bytes count 1, the others 4
RECURSIVE get_tokens_in_calldata(_)
get_tokens_in_calldata(input) ==
    IF input = <<>> THEN 0
    ELSE (IF input[1] = 0 THEN 1 ELSE NON_ZERO_BYTE_MULTIPLIER_ISTANBUL)
           + get_tokens_in_calldata(Tail(input))

\* L1BlockInfo::data_gas
data_gas(input) == U256_from(get_tokens_in_calldata(input) * STANDARD_TOKEN_COST)

\* a plausible slip: the fee overhead is left out of the sum
calculate_tx_l1_cost_bedrock_no_overhead(info, input) ==
    LET rollup_data_gas_cost == data_gas(input)
    IN U256_wrapping_div(
         U256_saturating_mul(
           U256_saturating_mul(rollup_data_gas_cost, info.l1_base_fee),
           info.l1_base_fee_scalar),
         L1_FEE_DECIMALS)

\* L1BlockInfo::calculate_tx_l1_cost_bedrock
calculate_tx_l1_cost_bedrock(info, input) ==
    LET rollup_data_gas_cost == data_gas(input)
    IN U256_wrapping_div(
         U256_saturating_mul(
           U256_saturating_mul(
             U256_saturating_add(rollup_data_gas_cost, unwrap_or_default(info.l1_fee_overhead)),
             info.l1_base_fee),
           info.l1_base_fee_scalar),
         L1_FEE_DECIMALS)

\* a plausible slip: the calldata term misses the factor 16
calculate_l1_fee_scaled_ecotone_unscaled(info) ==
    U256_saturating_add(
      U256_saturating_mul(info.l1_base_fee, info.l1_base_fee_scalar),
      U256_saturating_mul(unwrap_or_default(info.l1_blob_base_fee),
                          unwrap_or_default(info.l1_blob_base_fee_scalar)))

\* L1BlockInfo::calculate_l1_fee_scaled_ecotone
calculate_l1_fee_scaled_ecotone(info) ==
    LET calldata_cost_per_byte ==
            U256_saturating_mul(
              U256_saturating_mul(info.l1_base_fee, U256_from(NON_ZERO_BYTE_COST)),
              info.l1_base_fee_scalar)
        blob_cost_per_byte ==
            U256_saturating_mul(unwrap_or_default(info.l1_blob_base_fee),
                                unwrap_or_default(info.l1_blob_base_fee_scalar))
    IN U256_saturating_add(calldata_cost_per_byte, blob_cost_per_byte)

\* a plausible slip: the empty-scalars edge case is not looked at
calculate_tx_l1_cost_ecotone_no_fallback(info, input) ==
    U256_wrapping_div(
      U256_saturating_mul(calculate_l1_fee_scaled_ecotone(info), data_gas(input)),
      L1_FEE_DECIMALS * NON_ZERO_BYTE_COST)

\* L1BlockInfo::calculate_tx_l1_cost_ecotone
calculate_tx_l1_cost_ecotone(info, input) ==
    IF info.empty_ecotone_scalars THEN calculate_tx_l1_cost_bedrock(info, input)
    ELSE LET rollup_data_gas_cost == data_gas(input)
             l1_fee_scaled == calculate_l1_fee_scaled_ecotone(info)
         IN U256_wrapping_div(U256_saturating_mul(l1_fee_scaled, rollup_data_gas_cost),
                              L1_FEE_DECIMALS * NON_ZERO_BYTE_COST)

\* the snapshots and inputs the cost functions are applied to
MaxInputLen == 2       \* longest of the short inputs
RECURSIVE InputsOfLen(_)
InputsOfLen(n) ==
    IF n = 0 THEN {<<>>} ELSE {<<b>> \o i : b \in {0, 1}, i \in InputsOfLen(n - 1)}
TxInputs == UNION {InputsOfLen(n) : n \in 0 .. MaxInputLen} \cup {[i \in 1 .. 16 |-> 255]}
BaseFees == {U256_ZERO, U256_from(1000), U256_MAXIMUM}
Scalars == {U256_ZERO, U256_from(3), U256_from(2000000)}
Overheads == {None, Some(U256_ZERO), Some(U256_from(188))}
BlobBaseFees == {None, Some(U256_ZERO), Some(U256_from(7)), Some(U256_MAXIMUM)}
BlobScalars == {None, Some(U256_ZERO), Some(U256_from(5))}

L1BlockInfos ==
    { [L1BlockInfo_default EXCEPT !.l1_base_fee = bf, !.l1_fee_overhead = ov,
                                  !.l1_base_fee_scalar = sc, !.l1_blob_base_fee = bb,
                                  !.l1_blob_base_fee_scalar = bs,
                                  !.empty_ecotone_scalars = e] :
        bf \in BaseFees, ov \in Overheads, sc \in Scalars, bb \in BlobBaseFees,
        bs \in BlobScalars, e \in BOOLEAN }

Init_l1_cost ==
    l1 \in [state : {"ready"}, info : L1BlockInfos, input : TxInputs,
            data_gas : {<<>>}, bedrock : {None}, ecotone : {None}]

\* both cost functions applied to the input under the snapshot
L1Cost ==
    /\ l1.state = "ready"
    /\ l1' = [l1 EXCEPT !.state = "priced",
                        !.data_gas = data_gas(l1.input),
                        !.bedrock = Some(calculate_tx_l1_cost_bedrock(l1.info, l1.input)),
                        !.ecotone = Some(calculate_tx_l1_cost_ecotone(l1.info, l1.input))]
    /\ UNCHANGED <<hvars, dcall, mcall, bcall, prun>>

\* L1BlockInfo::try_fetch: the legacy branch is the one taken (`if true`), the
\* read of any of the three slots can fail
try_fetch(db, l2_block) ==
    IF db.fails THEN [ok |-> FALSE, info |-> L1BlockInfo_default]
    ELSE [ok |-> TRUE,
          info |-> [L1BlockInfo_default EXCEPT
                      !.l1_base_fee = db.l1_base_fee,
                      !.l1_fee_overhead = Some(db.l1_fee_overhead),
                      !.l1_base_fee_scalar = db.l1_fee_scalar]]

\* L1BlockInfo::clear_tx_l1_cost
clear_tx_l1_cost(info) == [info EXCEPT !.tx_l1_cost = None]

\* L1BlockInfo::calculate_tx_l1_cost
calculate_tx_l1_cost(info, input) ==
    IF info.tx_l1_cost # None THEN [info |-> info, cost |-> info.tx_l1_cost[1]]
    ELSE [info |-> info, cost |-> U256_ZERO]

\* the L1 block contract's storage, the blocks and the transactions of a run
MaxBlock == 2          \* block numbers 0 .. MaxBlock
MaxTxs == 2            \* transactions started in a run
MaxCostCalls == 2      \* calculate_tx_l1_cost calls per transaction
L1Storages ==
    [l1_base_fee : {U256_ZERO, U256_from(1000)},
     l1_fee_overhead : {U256_ZERO, U256_from(188)},
     l1_fee_scalar : {U256_ZERO, U256_from(2000000)},
     fails : BOOLEAN]

Init_l1_block ==
    l1 \in [state : {"run"}, info : {L1BlockInfo_default}, db : L1Storages,
            block : {0}, fetched_for : {None}, fetch_failed : {FALSE},
            txs : {0}, input : {<<>>}, calls : {0}, first : {None}, returned : {None},
            memo_at_first : {None}, cleared : {None}]

\* the engine moves to the next block; the L1 block contract may hold new values
L1NewBlock ==
    /\ l1.state = "run"
    /\ l1.block < MaxBlock
    /\ \E db \in L1Storages : l1' = [l1 EXCEPT !.block = l1.block + 1, !.db = db]
    /\ UNCHANGED <<hvars, dcall, mcall, bcall, prun>>

\* try_fetch for the engine's current block number
L1Fetch ==
    /\ l1.state = "run"
    /\ LET r == try_fetch(l1.db, U256_from(l1.block))
       IN l1' = IF r.ok
                THEN [l1 EXCEPT !.info = r.info, !.fetched_for = Some(l1.block),
                                !.fetch_failed = FALSE]
                ELSE [l1 EXCEPT !.fetch_failed = TRUE]
    /\ UNCHANGED <<hvars, dcall, mcall, bcall, prun>>

\* a transaction starts: clear_tx_l1_cost
L1NewTx ==
    /\ l1.state = "run"
    /\ l1.txs < MaxTxs
    /\ \E input \in TxInputs :
         l1' = [l1 EXCEPT !.info = clear_tx_l1_cost(l1.info),
                          !.cleared = Some([before |-> l1.info,
                                            after |-> clear_tx_l1_cost(l1.info)]),
                          !.txs = l1.txs + 1, !.input = input, !.calls = 0,
                          !.first = None, !.returned = None, !.memo_at_first = None]
    /\ UNCHANGED <<hvars, dcall, mcall, bcall, prun>>

\* calculate_tx_l1_cost for the input of the current transaction
L1CalculateTxCost ==
    /\ l1.state = "run"
    /\ l1.txs > 0
    /\ l1.calls < MaxCostCalls
    /\ LET r == calculate_tx_l1_cost(l1.info, l1.input)
       IN l1' = [l1 EXCEPT !.info = r.info, !.returned = Some(r.cost),
                           !.calls = l1.calls + 1,
                           !.first = IF l1.calls = 0 THEN Some(r.cost) ELSE l1.first,
                           !.memo_at_first =
                               IF l1.calls = 0 THEN Some(l1.info.tx_l1_cost)
                               ELSE l1.memo_at_first]
    /\ UNCHANGED <<hvars, dcall, mcall, bcall, prun>>

(***************************************************************************)
(* The precompile provider: src/precompiles.rs                             *)
(***************************************************************************)
\* ZKsyncPrecompiles::new_with_spec: ecrecover, sha256, ripemd160, identity,
\* modexp and the three bn254 precompiles, at addresses 1 to 8
EthPrecompileAddresses == 1 .. 8

\* EthPrecompiles::warm_addresses, EthPrecompiles::contains
inner_warm_addresses == EthPrecompileAddresses
inner_contains(address) == address \in EthPrecompileAddresses

\* EthPrecompiles::run: None for an address that is no precompile; what a base
\* precompile computes is not looked at
inner_run(address) ==
    [answered_by |-> "inner", inner_consulted |-> TRUE,
     is_some |-> inner_contains(address), result |-> None]

\* ZKsyncPrecompiles::run
run(overflow_checks, st, address, caller, is_static, gas_limit, call_value, input) ==
    IF address = CONTRACT_DEPLOYER_ADDRESS
    THEN [answered_by |-> "deployer", inner_consulted |-> FALSE, is_some |-> TRUE,
          result |-> Some(deployer_precompile_call(caller, is_static, gas_limit, input))]
    ELSE IF address = L1_MESSENGER_ADDRESS
    THEN [answered_by |-> "l1_messenger", inner_consulted |-> FALSE, is_some |-> TRUE,
          result |-> Some(l1_messenger_precompile_call(<<>>, caller, is_static, gas_limit,
                                                       call_value, input).result)]
    ELSE IF address = L2_BASE_TOKEN_ADDRESS
    THEN [answered_by |-> "l2_base_token", inner_consulted |-> FALSE, is_some |-> TRUE,
          result |-> Some(l2_base_token_precompile_call(overflow_checks, st, caller, is_static,
                                                        gas_limit, call_value, input).result)]
    ELSE inner_run(address)

\* ZKsyncPrecompiles::warm_addresses, ZKsyncPrecompiles::contains
warm_addresses == inner_warm_addresses
contains(address) == inner_contains(address)

SystemPrecompileAddresses ==
    {CONTRACT_DEPLOYER_ADDRESS, L1_MESSENGER_ADDRESS, L2_BASE_TOKEN_ADDRESS}

\* the calls the provider is asked about
CalledAddresses ==
    SystemPrecompileAddresses \cup EthPrecompileAddresses
      \cup {0, 9, 10, CONTRACT_DEPLOYER_ADDRESS - 1, L1_MESSENGER_ADDRESS - 1,
            L2_BASE_TOKEN_ADDRESS + 1}
ProviderInputs ==
    {Bytes(<<>>, 0, 0)} \cup {WithdrawCalldata(receiver) : receiver \in Receivers}
      \cup {MessengerBody(SEND_TO_L1_SELECTOR, Word(32), Word(0), 0, 0)}

Init_provider ==
    prun \in [state : {"run"}, overflow_checks : BOOLEAN,
              st : {[token |-> [balance |-> MaxCallValue, touched |-> FALSE, warm |-> FALSE],
                     journal |-> <<>>]},
              address : CalledAddresses,
              caller : {CONTRACT_DEPLOYER_ADDRESS, 0}, is_static : BOOLEAN,
              gas_limit : {0, MESSENGER_OVERHEAD + needed_gas(0)}, call_value : {0, 1},
              input : ProviderInputs,
              ran : {None}, contained : {None}, warm : {None}]

\* run on the called address
ProviderRun ==
    /\ prun.state = "run"
    /\ prun.ran = None
    /\ prun' = [prun EXCEPT !.ran = Some(run(prun.overflow_checks, prun.st, prun.address,
                                              prun.caller, prun.is_static, prun.gas_limit,
                                              prun.call_value, prun.input))]
    /\ UNCHANGED <<hvars, dcall, mcall, bcall, l1>>

\* contains on the called address
ProviderContains ==
    /\ prun.state = "run"
    /\ prun.contained = None
    /\ prun' = [prun EXCEPT !.contained = Some(contains(prun.address))]
    /\ UNCHANGED <<hvars, dcall, mcall, bcall, l1>>

\* warm_addresses, collected into a set
ProviderWarmAddresses ==
    /\ prun.state = "run"
    /\ prun.warm = None
    /\ prun' = [prun EXCEPT !.warm = Some(warm_addresses)]
    /\ UNCHANGED <<hvars, dcall, mcall, bcall, l1>>

\* the precompiles are checked with no transaction in the handler
Init_no_transaction ==
    /\ tx = [tx_type |-> LEGACY_TRANSACTION_TYPE, kind |-> "Call", gas_limit |-> 0,
             gas_price |-> 0, value |-> 0, nonce |-> 0, caller |-> Caller,
             mint |-> None, refund_recipient |-> None,
             gas_used_override |-> None, force_fail |-> FALSE]
    /\ accounts = [a \in Addresses |->
                     [balance |-> 0, nonce |-> 0, has_code |-> FALSE, touched |-> FALSE]]
    /\ chain = [nonce0 |-> 0, started |-> 0, committed |-> 0, calls_only |-> TRUE]
    /\ pre = accounts
    /\ journal = <<>>
    /\ pc = "Idle"
    /\ frame = <<>>
    /\ ctx_error = ""
    /\ pending = NoError
    /\ result = NoResult
    /\ scratch = "clear"
    /\ commits = 0
    /\ phases = <<>>
    /\ checks = {}

InitDeployer ==
    /\ Init_no_transaction
    /\ Init_deployer_call
    /\ mcall = Idle
    /\ bcall = Idle
    /\ l1 = Idle
    /\ prun = Idle

NextDeployer == DeployerCall

SpecDeployer == InitDeployer /\ [][NextDeployer]_vars

InitMessenger ==
    /\ Init_no_transaction
    /\ dcall = Idle
    /\ Init_messenger_call
    /\ bcall = Idle
    /\ l1 = Idle
    /\ prun = Idle

NextMessenger == MessengerCall

SpecMessenger == InitMessenger /\ [][NextMessenger]_vars

InitBaseToken ==
    /\ Init_no_transaction
    /\ dcall = Idle
    /\ mcall = Idle
    /\ Init_base_token_call
    /\ l1 = Idle
    /\ prun = Idle

NextBaseToken == BaseTokenCall

SpecBaseToken == InitBaseToken /\ [][NextBaseToken]_vars

InitL1Cost ==
    /\ Init_no_transaction
    /\ dcall = Idle
    /\ mcall = Idle
    /\ bcall = Idle
    /\ Init_l1_cost
    /\ prun = Idle

NextL1Cost == L1Cost

SpecL1Cost == InitL1Cost /\ [][NextL1Cost]_vars

InitL1Block ==
    /\ Init_no_transaction
    /\ dcall = Idle
    /\ mcall = Idle
    /\ bcall = Idle
    /\ Init_l1_block
    /\ prun = Idle

NextL1Block == L1NewBlock \/ L1Fetch \/ L1NewTx \/ L1CalculateTxCost

SpecL1Block == InitL1Block /\ [][NextL1Block]_vars

InitProvider ==
    /\ Init_no_transaction
    /\ dcall = Idle
    /\ mcall = Idle
    /\ bcall = Idle
    /\ l1 = Idle
    /\ Init_provider

NextProvider == ProviderRun \/ ProviderContains \/ ProviderWarmAddresses

SpecProvider == InitProvider /\ [][NextProvider]_vars

(***************************************************************************)
(* Properties of the handler                                               *)
(***************************************************************************)
SameInfo(acc1, acc2) ==
    \A a \in Addresses : /\ acc1[a].balance = acc2[a].balance
                         /\ acc1[a].nonce = acc2[a].nonce

CrossLayer == tx.tx_type \in {UPGRADE_TRANSACTION_TYPE, L1_PRIORITY_TRANSACTION_TYPE}

Ran(phase) == \E i \in 1 .. Len(phases) : phases[i] = phase
TxMint == UnwrapOr(tx.mint, 0)
FeeSpent == Gas_spent(frame[1].gas) * effective_gas_price(tx, BlockBaseFee)

\* C1: a cross-layer transaction whose run fails with a transaction-level
\* error ends as a FailedDeposit halt with gas_used = gas limit, the caller's
\* nonce one higher and its balance credited with the full mint.
C1_FailedDepositRecovery ==
    (pc = "Done" /\ CrossLayer /\ is_tx_error(pending))
        => /\ result.tag = "Ok"
           /\ result.reason = ZkHaltReason_FailedDeposit
           /\ result.gas_used = tx.gas_limit
           /\ accounts[Caller].nonce = pre[Caller].nonce + 1
           /\ accounts[Caller].balance = pre[Caller].balance + TxMint

\* C2 as stated: an ordinary transaction whose maximum balance spending
\* exceeds balance + mint makes validate_against_state_and_deduct_caller return
\* LackOfFundForMaxFee, with every account left as it was.
C2_LackOfFundsAlways ==
    (Ran("PreExecution") /\ ~CrossLayer
       /\ max_balance_spending(tx) > pre[Caller].balance + TxMint)
        => /\ pending = TransactionError("LackOfFundForMaxFee")
           /\ SameInfo(accounts, pre)

\* C2 amended: an ordinary transaction that passes the nonce and caller-code
\* check and whose maximum balance spending exceeds balance + mint is
\* rejected with LackOfFundForMaxFee before any execution, and no account's
\* balance or nonce changes, neither in the step nor afterwards.
C2_LackOfFundsNoMutation ==
    (Ran("PreExecution") /\ ~CrossLayer
       /\ validate_account_nonce_and_code(pre[Caller], tx.nonce) = NoError
       /\ max_balance_spending(tx) > pre[Caller].balance + TxMint)
        => /\ pending = TransactionError("LackOfFundForMaxFee")
           /\ ~Ran("Execution") /\ ~Ran("ForcedFail")
           /\ frame = <<>>
           /\ journal = <<>>
           /\ SameInfo(accounts, pre)
           /\ pc = "Done" => (result.tag = "Err" /\ result.error = pending)

C2_Witness ==
    /\ pc = "Done"
    /\ ~CrossLayer
    /\ IsSome(tx.mint)
    /\ result.tag = "Err"
    /\ result.error = TransactionError("LackOfFundForMaxFee")

\* C3: after post-execution of a cross-layer transaction the refund recipient
\* holds exactly mint - value - fee_spent (success) or mint - fee_spent
\* (failure), taken out of the caller's balance; an ordinary transaction
\* leaves the refund recipient alone.
C3_RefundRecipientCredit ==
    (pc = "Commit")
        => IF CrossLayer
           THEN accounts[RefundRecipient].balance - pre[RefundRecipient].balance
                  = IF is_ok(frame[1].result) THEN TxMint - tx.value - FeeSpent
                    ELSE TxMint - FeeSpent
           ELSE accounts[RefundRecipient].balance = pre[RefundRecipient].balance

\* C4: a force_fail transaction never runs the execution phase; it gets a
\* synthetic Revert with empty output, gas spent min(gas_used_override,
\* gas_limit) (the gas limit when there is no override) and the accounts as
\* pre-execution left them; post-execution and commit then run on it.
C4_ForceFailSynthetic ==
    tx.force_fail
        => /\ ~Ran("Execution")
           /\ pc = "PostExecution"
                => /\ frame[1].result = "Revert"
                   /\ frame[1].output = <<>>
                   /\ Gas_spent(frame[1].gas)
                        = Min(UnwrapOr(tx.gas_used_override, tx.gas_limit), tx.gas_limit)
                   /\ frame[1].gas.refunded = 0
                   /\ accounts = validate_against_state_and_deduct_caller(tx, pre, <<>>).accounts
                   /\ journal = validate_against_state_and_deduct_caller(tx, pre, <<>>).journal
           /\ result.tag = "Ok"
                => /\ phases = <<"Validate", "PreExecution", "ForcedFail",
                                 "PostExecution", "Commit">>
                   /\ result.outcome = "Revert"

C4_Witness ==
    /\ tx.force_fail
    /\ tx.gas_used_override = Some(IntrinsicGas)
    /\ tx.gas_limit > IntrinsicGas
    /\ result.tag = "Ok"

\* C5: with gas_used_override set, after post-execution the gas spent is
\* min(gas_used_override, gas_limit) and the refund is zero whatever the
\* execution did, and the beneficiary is paid from that gas; without it the
\* refund cap and the gas floor have been applied before the payments.
C5_OverrideRewritesGas ==
    (pc = "Commit")
        => /\ accounts[Beneficiary].balance
                = tx.gas_price * Gas_used(frame[1].gas)
           /\ ~CrossLayer
                => accounts[Caller].balance
                     = pre[Caller].balance + TxMint
                         - (IF is_ok(frame[1].result) THEN tx.value ELSE 0)
                         - tx.gas_price * Gas_used(frame[1].gas)
           /\ IF IsSome(tx.gas_used_override)
              THEN /\ Gas_spent(frame[1].gas) = Min(tx.gas_used_override[1], tx.gas_limit)
                   /\ frame[1].gas.refunded = 0
              ELSE /\ frame[1].gas.refunded <= Gas_spent(frame[1].gas) \div 5
                   /\ Gas_used(frame[1].gas) >= InitialAndFloorGas(tx).floor_gas

C5_Witness ==
    /\ pc = "Commit"
    /\ IsSome(tx.gas_used_override)
    /\ Ran("Execution")
    /\ is_ok(frame[1].result)
    /\ Gas_spent(frame[1].gas) < tx.gas_limit
    /\ tx.gas_price > 0

\* C6: a cross-layer transaction runs none of the environment, nonce/code and
\* funds checks and is never rejected by them; an ordinary transaction that
\* gets past pre-execution has run all three, and one with a wrong nonce,
\* caller code or too little balance is rejected.
StateCheckErrors ==
    {TransactionError(w) : w \in {"GasPriceLessThanBasefee", "NonceTooHigh", "NonceTooLow",
                                  "RejectCallerWithCode", "LackOfFundForMaxFee"}}

C6_CrossLayerSkipsChecks ==
    IF CrossLayer
    THEN checks = {} /\ pending \notin StateCheckErrors
    ELSE /\ Ran("PreExecution") => "env" \in checks /\ "nonce_code" \in checks
         /\ pc \in {"Execution", "PostExecution", "Commit"}
              => /\ checks = {"env", "nonce_code", "funds"}
                 /\ ~pre[Caller].has_code
                 /\ pre[Caller].nonce = tx.nonce
                 /\ max_balance_spending(tx) <= pre[Caller].balance + TxMint

C6_Witness ==
    /\ CrossLayer
    /\ pre[Caller].has_code
    /\ pre[Caller].nonce # tx.nonce
    /\ max_balance_spending(tx) > pre[Caller].balance + TxMint
    /\ tx.gas_price < BlockBaseFee
    /\ result.tag = "Ok"

\* C7: a completed transaction carries a standard outcome or FailedDeposit,
\* never both: a halt of the commit path is ZkHaltReason::Base and converts
\* back to the halt it wraps, FailedDeposit does not convert, and FailedDeposit
\* comes only from a cross-layer transaction that failed with a
\* transaction-level error.
C7_HaltReasonTaxonomy ==
    result.tag = "Ok"
        => /\ result.outcome \in {"Success", "Revert", "Halt"}
           /\ result.outcome = "Halt"
                => /\ Ran("Commit") => result.reason = ZkHaltReason_Base(frame[1].result)
                   /\ result.reason # ZkHaltReason_FailedDeposit
                        => HaltReason_try_from(result.reason)
                             = [ok |-> TRUE, value |-> <<frame[1].result>>]
                   /\ result.reason = ZkHaltReason_FailedDeposit
                        => /\ CrossLayer /\ is_tx_error(pending)
                           /\ ~HaltReason_try_from(result.reason).ok
           /\ result.outcome # "Halt" => result.reason = <<>>

C7_Witness ==
    /\ result.tag = "Ok"
    /\ result.outcome = "Halt"
    /\ result.reason = ZkHaltReason_Base("OutOfGas")

(***************************************************************************)
(* Properties of the Contract Deployer                                     *)
(***************************************************************************)
DeployerArgs == Slice(dcall.calldata, 4, BytesLen(dcall.calldata))
DeployerOffset == usize_from_be_slice(Slice(DeployerArgs, 32, 64))
DeployerLength ==
    usize_from_be_slice(Slice(DeployerArgs, DeployerOffset.val, DeployerOffset.val + 32))

\* the address and bytes arguments decode, and the bytes lie within the calldata
DeployerEncodingValid ==
    /\ BytesLen(dcall.calldata) >= 4 + 64
    /\ <<At(dcall.calldata, 0), At(dcall.calldata, 1), At(dcall.calldata, 2),
         At(dcall.calldata, 3)>> = SET_DEPLOYED_CODE_EVM_SELECTOR
    /\ ~AnyNonZero(DeployerArgs, 0, 12)
    /\ DeployerOffset.ok /\ DeployerOffset.cls = "small"
    /\ DeployerOffset.val + 32 <= BytesLen(DeployerArgs)
    /\ DeployerLength.ok /\ DeployerLength.cls = "small"
    /\ DeployerOffset.val + 32 + DeployerLength.val <= BytesLen(DeployerArgs)

\* valid but for the length of the code: from the upgrade address, not static,
\* well encoded, and the code does not start with 0xEF
DeployerOtherwiseValid ==
    /\ dcall.caller = L2_GENESIS_UPGRADE_ADDRESS
    /\ ~dcall.is_static
    /\ DeployerEncodingValid
    /\ DeployerLength.val = 0 \/ At(DeployerArgs, DeployerOffset.val + 32) # 239

\* C8: whatever the calldata, static flag and gas limit, a Contract Deployer
\* call whose caller is not the genesis upgrade address ends with Revert,
\* installs no code and changes no account.
C8_NonUpgradeCallerReverts ==
    (dcall.state = "done" /\ dcall.caller # L2_GENESIS_UPGRADE_ADDRESS)
        => /\ dcall.result.result = "Revert"
           /\ dcall.code = <<>>
           /\ accounts = pre
           /\ journal = <<>>

C8_Witness ==
    /\ dcall.state = "done"
    /\ dcall.caller = CONTRACT_DEPLOYER_ADDRESS
    /\ ~dcall.is_static
    /\ DeployerEncodingValid
    /\ DeployerLength.val = MAX_CODE_SIZE
    /\ At(DeployerArgs, DeployerOffset.val + 32) = 96
    /\ dcall.result.result = "Revert"

\* C9: an otherwise valid Contract Deployer call from the upgrade address
\* succeeds exactly when the decoded code length is at most 0x6000 (0x6000
\* succeeds, 0x6001 reverts), and no call succeeds with a longer code.
C9_MaxCodeSizeInclusive ==
    dcall.state = "done"
        => /\ DeployerOtherwiseValid
                => /\ DeployerLength.val <= MAX_CODE_SIZE => dcall.result.result = "Return"
                   /\ DeployerLength.val > MAX_CODE_SIZE => dcall.result.result = "Revert"
           /\ dcall.result.result = "Return"
                => DeployerEncodingValid /\ DeployerLength.val <= MAX_CODE_SIZE

C9_Witness ==
    /\ dcall.state = "done"
    /\ DeployerOtherwiseValid
    /\ DeployerLength.val = MAX_CODE_SIZE
    /\ dcall.result.result = "Return"

(***************************************************************************)
(* Properties of the L1 Messenger                                          *)
(***************************************************************************)
MessengerArgs == Slice(mcall.calldata, 4, BytesLen(mcall.calldata))
MessageLength == u32_from_be_slice(Slice(MessengerArgs, 32, 64))

\* a sendToL1(bytes) call the messenger accepts, gas aside
WellFormedSend ==
    /\ BytesLen(mcall.calldata) >= 4 + 64
    /\ <<At(mcall.calldata, 0), At(mcall.calldata, 1), At(mcall.calldata, 2),
         At(mcall.calldata, 3)>> = SEND_TO_L1_SELECTOR
    /\ ~mcall.is_static
    /\ mcall.call_value = 0
    /\ Slice(MessengerArgs, 0, 32) = Bytes(Word(32), 32, 0)
    /\ MessageLength.ok /\ MessageLength.cls = "small"
    /\ 64 + MessageLength.val <= BytesLen(MessengerArgs)
    /\ BytesLen(MessengerArgs) % 32 = 0

GasCharged == mcall.gas_limit - mcall.result.gas.remaining

\* C10 as stated: the gas charged for a well-formed call with a message of n
\* bytes is the hashing and logging formula; exactly that gas limit succeeds,
\* one unit less ends with OutOfGas and no log.
C10_GasChargedIsFormula ==
    (mcall.state = "done" /\ WellFormedSend)
        => /\ mcall.gas_limit = FormulaGas(MessageLength.val)
                => mcall.result.result = "Return"
           /\ mcall.gas_limit = FormulaGas(MessageLength.val) - 1
                => mcall.result.result = "OutOfGas" /\ mcall.logs = <<>>
           /\ mcall.result.result = "Return" => GasCharged = FormulaGas(MessageLength.val)

\* C10 amended: the gas charged is the fixed overhead of 10 plus the hashing
\* and logging formula; a gas limit of at least that succeeds and is charged
\* exactly that, a smaller one ends with OutOfGas and no log.
C10_GasChargedWithOverhead ==
    (mcall.state = "done" /\ WellFormedSend)
        => IF mcall.gas_limit >= MESSENGER_OVERHEAD + FormulaGas(MessageLength.val)
           THEN /\ mcall.result.result = "Return"
                /\ GasCharged = MESSENGER_OVERHEAD + FormulaGas(MessageLength.val)
                /\ Len(mcall.logs) = 1
           ELSE /\ mcall.result.result = "OutOfGas"
                /\ mcall.logs = <<>>

C10_Witness ==
    /\ mcall.state = "done"
    /\ WellFormedSend
    /\ MessageLength.val = 33
    /\ mcall.gas_limit = MESSENGER_OVERHEAD + FormulaGas(33)
    /\ mcall.result.result = "Return"
    /\ Len(mcall.logs) = 1

\* the declared length is the one whose 32-byte padding fills the calldata
\* after the offset and length words exactly
DeclaredLengthFits ==
    /\ MessageLength.ok /\ MessageLength.cls = "small"
    /\ BytesLen(MessengerArgs) = 64 + Pad32(MessageLength.val)

\* C11: a sendToL1 call whose declared message length does not match the
\* calldata remaining after the offset and length words reverts (given the
\* gas a matching call would need), returns no hash and emits no log.
C11_LengthMismatchReverts ==
    (mcall.state = "done" /\ BytesLen(mcall.calldata) >= 4 + 64 /\ ~DeclaredLengthFits
       /\ mcall.gas_limit >= MESSENGER_OVERHEAD
       /\ ((MessageLength.ok /\ MessageLength.cls = "small")
            => mcall.gas_limit >= MESSENGER_OVERHEAD + FormulaGas(MessageLength.val)))
        => /\ mcall.result.result = "Revert"
           /\ mcall.result.output = <<>>
           /\ mcall.logs = <<>>

\* the message of a well-formed call
SentMessage == Slice(MessengerArgs, 64, 64 + MessageLength.val)

\* the log of a successful call, but for its payload
IsMessageSentLog(log) ==
    /\ log.address = L1_MESSENGER_ADDRESS
    /\ log.topics = <<L1_MESSAGE_SENT_TOPIC, Word(mcall.caller),
                      <<"keccak256", SentMessage>>>>

OutboundMessage == bcall.message[1]
DecodedOffset == u32_from_be_slice(Slice(OutboundMessage, 0, 32))
DecodedLength == u32_from_be_slice(Slice(OutboundMessage, 32, 64))
DecodedSelector == Slice(OutboundMessage, 64, 68)
DecodedReceiver == Slice(OutboundMessage, 68, 88)
DecodedValue == u32_from_be_slice(Slice(OutboundMessage, 88, 120))
DecodedSender == Slice(OutboundMessage, 120, 140)
DecodedData == Slice(OutboundMessage, 140, 64 + DecodedLength.val)

WithdrawWithMessageBuilt ==
    /\ bcall.state = "done"
    /\ bcall.result.result = "Return"
    /\ bcall.calldata = WithdrawWithMessageCalldata(bcall.receiver, bcall.data)

\* C13: the outbound message built by withdrawWithMessage for a receiver, call
\* value, caller and additional data decodes, by the offset and length rules,
\* to the same receiver, value, sender and additional data.
C13_WithdrawMessageRoundTrip ==
    WithdrawWithMessageBuilt
        => /\ IsSome(bcall.message)
           /\ DecodedOffset.ok /\ DecodedOffset.cls = "small" /\ DecodedOffset.val = 32
           /\ DecodedLength.ok /\ DecodedLength.cls = "small"
           /\ DecodedLength.val >= 76
           /\ 64 + DecodedLength.val <= BytesLen(OutboundMessage)
           /\ DecodedSelector = Bytes(FINALIZE_ETH_WITHDRAWAL_SELECTOR, 4, 0)
           /\ DecodedReceiver = bcall.receiver
           /\ DecodedValue.ok /\ DecodedValue.cls = "small"
           /\ DecodedValue.val = bcall.call_value
           /\ DecodedSender = Bytes(SubSeq(Word(bcall.caller), 13, 32), 20, 0)
           /\ DecodedData = bcall.data

C13_Witness ==
    /\ WithdrawWithMessageBuilt
    /\ bcall.caller = CONTRACT_DEPLOYER_ADDRESS
    /\ bcall.call_value = 1
    /\ bcall.data = Bytes(<<171>>, 21, 0)

BaseTokenSelector ==
    <<At(bcall.calldata, 0), At(bcall.calldata, 1), At(bcall.calldata, 2), At(bcall.calldata, 3)>>

WellFormedWithdrawal ==
    \/ bcall.calldata = WithdrawCalldata(bcall.receiver)
    \/ bcall.calldata = WithdrawWithMessageCalldata(bcall.receiver, bcall.data)

\* C14: for withdraw and withdrawWithMessage a static call always reverts; a
\* non-static well-formed call debits the token-holder account by exactly the
\* call value and journals the balance before the debit; if the balance is
\* smaller than the call value the call reverts.
C14_WithdrawDebit ==
    (bcall.state = "done" /\ BytesLen(bcall.calldata) >= 4
       /\ BaseTokenSelector \in {WITHDRAW_SELECTOR, WITHDRAW_WITH_MESSAGE_SELECTOR})
        => /\ bcall.is_static => bcall.result.result = "Revert"
           /\ (~bcall.is_static /\ WellFormedWithdrawal)
                => IF bcall.before.balance >= bcall.call_value
                   THEN /\ bcall.result.result = "Return"
                        /\ bcall.st.token.balance = bcall.before.balance - bcall.call_value
                        /\ \E i \in DOMAIN bcall.st.journal :
                              bcall.st.journal[i]
                                = BalanceChange(L2_BASE_TOKEN_ADDRESS, bcall.before.balance)
                   ELSE bcall.result.result = "Revert"

(***************************************************************************)
(* Properties of the L1 cost functions                                     *)
(***************************************************************************)
Priced == l1.state = "priced"

\* C15: with the empty-scalars flag true, the current-era cost function returns
\* exactly what the legacy cost function returns on the same input and snapshot
C15_EmptyScalarsFallsBackToLegacy ==
    (Priced /\ l1.info.empty_ecotone_scalars) => l1.ecotone = l1.bedrock

\* the fallback is visible: the legacy cost differs from the fee-scaled quotient
C15_Witness ==
    /\ Priced
    /\ l1.info.empty_ecotone_scalars
    /\ l1.info.l1_fee_overhead = Some(U256_from(188))
    /\ l1.info.l1_blob_base_fee = Some(U256_from(7))
    /\ l1.info.l1_blob_base_fee_scalar = Some(U256_from(5))
    /\ l1.bedrock # Some(U256_ZERO)
    /\ l1.ecotone = l1.bedrock

\* the closed form, every product and the sum at full width
ClosedFormScaledFee ==
    AddCarry(MulWide(MulWide(l1.info.l1_base_fee, U256_from(16)), l1.info.l1_base_fee_scalar),
             MulWide(unwrap_or_default(l1.info.l1_blob_base_fee),
                     unwrap_or_default(l1.info.l1_blob_base_fee_scalar)), 0)
ClosedFormCost == U256_wrapping_div(MulWide(l1.data_gas, ClosedFormScaledFee), 16000000)

\* the closed form with each product and the sum capped at 2^256 - 1
SaturatingScaledFee ==
    Saturate(AddCarry(
      Saturate(MulWide(Saturate(MulWide(l1.info.l1_base_fee, U256_from(16))),
                       l1.info.l1_base_fee_scalar)),
      Saturate(MulWide(unwrap_or_default(l1.info.l1_blob_base_fee),
                       unwrap_or_default(l1.info.l1_blob_base_fee_scalar))), 0))
SaturatingCost ==
    U256_wrapping_div(Saturate(MulWide(l1.data_gas, SaturatingScaledFee)), 16000000)

SixteenNonZeroBytes == Len(l1.input) = 16 /\ \A i \in 1 .. 16 : l1.input[i] # 0
ExampleSnapshot ==
    /\ l1.info.l1_base_fee = U256_from(1000)
    /\ l1.info.l1_base_fee_scalar = U256_from(2000000)
    /\ unwrap_or_default(l1.info.l1_blob_base_fee) = U256_ZERO
    /\ unwrap_or_default(l1.info.l1_blob_base_fee_scalar) = U256_ZERO
ExampleDataGas ==
    (Priced /\ SixteenNonZeroBytes) => l1.data_gas = U256_from(16 * 4 * STANDARD_TOKEN_COST)

\* C16 as stated: with the flag false the cost is
\* floor(data_gas * (base_fee * 16 * scalar + blob_base_fee * blob_scalar) / 16000000),
\* and 16 non-zero bytes have data_gas = 16 * 4 * token_cost
C16_CostIsClosedForm ==
    /\ (Priced /\ ~l1.info.empty_ecotone_scalars) => l1.ecotone = Some(ClosedFormCost)
    /\ ExampleDataGas

\* C16 amended: the same closed form with every product and the sum saturating
\* at 2^256 - 1 before the single truncating division
C16_CostIsSaturatingClosedForm ==
    /\ (Priced /\ ~l1.info.empty_ecotone_scalars) => l1.ecotone = Some(SaturatingCost)
    /\ ExampleDataGas

\* the worked example: 16 non-zero bytes, data_gas 256, cost 512000
C16_Witness ==
    /\ Priced
    /\ ~l1.info.empty_ecotone_scalars
    /\ SixteenNonZeroBytes
    /\ ExampleSnapshot
    /\ l1.data_gas = U256_from(256)
    /\ l1.ecotone = Some(U256_from(512000))
    /\ l1.ecotone = Some(ClosedFormCost)

(***************************************************************************)
(* Properties of the L1 block snapshot                                     *)
(***************************************************************************)
\* the cost of the current transaction's input under either cost formula
FormulaCosts ==
    {calculate_tx_l1_cost_bedrock(l1.info, l1.input),
     calculate_tx_l1_cost_ecotone(l1.info, l1.input)}
CostAsked == l1.state = "run" /\ l1.calls > 0

\* C17: the first calculate_tx_l1_cost call of a transaction, made with the memo
\* empty, returns the formula cost of the transaction's input and stores it in
\* tx_l1_cost; every further call returns that stored value
C17_FirstCallComputesAndStores ==
    (CostAsked /\ l1.memo_at_first = Some(None)) =>
        /\ l1.first[1] \in FormulaCosts
        /\ l1.info.tx_l1_cost = l1.first
        /\ l1.returned = l1.first

\* C18: with clear_tx_l1_cost at the start of each transaction the returned cost
\* is the formula cost of the transaction's own input under the current
\* snapshot, and clear_tx_l1_cost changes no field but the memo
C18_CostIsOfOwnInput ==
    /\ CostAsked => l1.returned[1] \in FormulaCosts
    /\ (l1.state = "run" /\ l1.cleared # None) =>
           l1.cleared[1].after = [l1.cleared[1].before EXCEPT !.tx_l1_cost = None]

\* the snapshot says a re-fetch is needed: its l2_block is not the current block
SnapshotStale == l1.info.l2_block # U256_from(l1.block)

\* C19: a snapshot fetched for block n records l2_block = n, so the comparison
\* with the current block number reports exactly the changes of block
C19_SnapshotRecordsBlock ==
    (l1.state = "run" /\ l1.fetched_for # None) =>
        /\ l1.info.l2_block = U256_from(l1.fetched_for[1])
        /\ SnapshotStale <=> (l1.fetched_for[1] # l1.block)

(***************************************************************************)
(* Properties of the precompile provider                                   *)
(***************************************************************************)
SystemPrecompileOf(address) ==
    IF address = CONTRACT_DEPLOYER_ADDRESS THEN "deployer"
    ELSE IF address = L1_MESSENGER_ADDRESS THEN "l1_messenger"
    ELSE "l2_base_token"

\* run is answered by the system precompile of a system address without
\* consulting the base set, and by the base set for every other address
RunDispatches ==
    (prun.state = "run" /\ prun.ran # None) =>
        IF prun.address \in SystemPrecompileAddresses
        THEN /\ prun.ran[1].answered_by = SystemPrecompileOf(prun.address)
             /\ ~prun.ran[1].inner_consulted
        ELSE /\ prun.ran[1].answered_by = "inner"
             /\ prun.ran[1].is_some = (prun.address \in EthPrecompileAddresses)

\* C20: the warm-address set and contains both hold the three system precompile
\* addresses besides the base set, and run dispatches the three addresses to
\* their system precompiles and every other address to the base set
C20_SystemAddressesWarmAndDispatched ==
    /\ (prun.state = "run" /\ prun.warm # None) =>
           prun.warm[1] = EthPrecompileAddresses \cup SystemPrecompileAddresses
    /\ (prun.state = "run" /\ prun.contained # None) =>
           prun.contained[1] =
               (prun.address \in EthPrecompileAddresses \cup SystemPrecompileAddresses)
    /\ RunDispatches

(***************************************************************************)
(* Properties of the three system precompiles together                     *)
(***************************************************************************)
ResultKinds == {"Return", "Revert", "OutOfGas"}

\* C21: whatever the calldata, caller, static flag, call value and gas limit,
\* each system precompile ends with Return, Revert or OutOfGas and never aborts
C21_PrecompilesNeverAbort ==
    /\ dcall.state = "done" => dcall.result.result \in ResultKinds
    /\ mcall.state = "done" => mcall.result.result \in ResultKinds
    /\ bcall.state = "done" => bcall.result.result \in ResultKinds

(***************************************************************************)
(* Properties of the handler: refund recipient, nonce, journal, phases     *)
(***************************************************************************)
Finished == pc = "Done"

\* C22: a refund recipient is needed exactly by a cross-layer transaction with
\* mint set: without mint and without recipient the transaction goes through
\* post-execution to the commit, with mint and without recipient it is
\* rejected with an error, and the run never aborts
C22_RefundRecipientRequired ==
    /\ (Finished /\ CrossLayer /\ tx.mint = None /\ tx.refund_recipient = None
          /\ Ran("PostExecution")) => Ran("Commit")
    /\ (Finished /\ CrossLayer /\ IsSome(tx.mint) /\ tx.refund_recipient = None)
          => result.tag = "Err"
    /\ result.tag # "Panic"

\* the adjustment step has just succeeded
Adjusted == pc = "Execution"

\* C23: in the adjustment step a cross-layer CALL transaction has the caller's
\* nonce incremented by 1 as an ordinary CALL has; a CREATE of either sort
\* leaves the nonce as it was
C23_CrossLayerCallBumpsNonce ==
    Adjusted => accounts[Caller].nonce
                  = pre[Caller].nonce + (IF tx.kind = "Call" THEN 1 ELSE 0)

\* C24: for an ordinary transaction that passes the funds check the adjustment
\* step leaves the caller with balance + mint - gas_limit * gas_price, bumps
\* its nonce by 1 for a CALL and not for a CREATE, marks it touched and changes
\* no other account; after k committed ordinary CALL transactions of one
\* caller its nonce is the first nonce + k
C24_OrdinaryAdjustment ==
    /\ (Adjusted /\ ~CrossLayer) =>
           /\ accounts[Caller].balance
                = pre[Caller].balance + TxMint - tx.gas_limit * tx.gas_price
           /\ accounts[Caller].nonce
                = pre[Caller].nonce + (IF tx.kind = "Call" THEN 1 ELSE 0)
           /\ accounts[Caller].touched
           /\ \A a \in Addresses \ {Caller} : accounts[a] = pre[a]
    /\ (chain.calls_only /\ pc = "Validate") =>
           accounts[Caller].nonce = chain.nonce0 + chain.committed
    /\ (chain.calls_only /\ Finished /\ result.tag = "Ok") =>
           accounts[Caller].nonce = chain.nonce0 + chain.committed + 1

\* two ordinary CALL transactions of one caller have been committed, the
\* second one moving value
C24_Witness ==
    /\ Finished
    /\ result.tag = "Ok"
    /\ chain.calls_only
    /\ chain.committed = MaxChain - 1
    /\ tx.value > 0
    /\ accounts[Caller].nonce = chain.nonce0 + MaxChain

\* C25: the journal entry of the adjustment step holds the caller's balance
\* from before the mint credit and a nonce-bump marker exactly when the nonce
\* was bumped, so a discard of the transaction at any later point gives the
\* caller its pre-transaction balance and nonce back, for ordinary and
\* cross-layer transactions alike
C25_JournalMatchesMutation ==
    /\ Adjusted =>
           /\ journal[1] = BalanceChange(Caller, pre[Caller].balance)
           /\ (\E i \in 1 .. Len(journal) : journal[i] = NonceChange(Caller))
                <=> accounts[Caller].nonce # pre[Caller].nonce
    /\ (Finished /\ result.tag = "Err") =>
           /\ accounts[Caller].balance = pre[Caller].balance
           /\ accounts[Caller].nonce = pre[Caller].nonce

\* what execution_result does in one step, by the queued error it finds
ExecutionResultStep ==
    pc = "Commit" =>
        /\ ctx_error' = ""
        /\ ctx_error = "Db" =>
               /\ pending' = DatabaseError
               /\ pc' = "CatchError"
               /\ UNCHANGED <<journal, commits, accounts, result, scratch>>
        /\ ctx_error = "Custom" =>
               /\ pending' = CustomError
               /\ pc' = "CatchError"
               /\ UNCHANGED <<journal, commits, accounts, result, scratch>>
        /\ ctx_error = "" =>
               /\ result'.tag = "Ok"
               /\ result'.outcome = "Halt" => result'.reason = ZkHaltReason_Base(frame[1].result)
               /\ result'.outcome # "Halt" => result'.reason = <<>>
               /\ commits' = commits + 1
               /\ journal' = <<>>
               /\ scratch' = "clear"
               /\ pending' = NoError

\* C26: execution_result takes a queued engine error first: a database error
\* is returned as the fatal error and a custom error as the string-carrying
\* error, without a commit and with the queue left empty; with nothing queued
\* the frame result is wrapped as ZkHaltReason::Base, the journal committed and
\* the scratch state cleared
C26_ExecutionResultTakesQueuedError == [][ExecutionResultStep]_vars

\* a queued custom error came back from execution_result as the run's error
C26_Witness ==
    /\ Finished
    /\ Ran("Commit")
    /\ result.tag = "Err"
    /\ result.error = CustomError
    /\ commits = 0
    /\ ctx_error = ""

PhaseOrder == <<"Validate", "PreExecution", "Execution", "PostExecution", "Commit">>

\* the forced-fail synthesis stands in the place of the execution
PhaseOf(p) == IF p = "ForcedFail" THEN "Execution" ELSE p

\* the phases the run went through, the error path aside
PhasesRun == SelectSeq(phases, LAMBDA p : p # "CatchError")

\* validation raises an error on this transaction
ValidationError ==
    \/ validate_env(tx).error # NoError
    \/ InitialAndFloorGas(tx).initial_gas > tx.gas_limit

\* the balance adjustment raises an error on this transaction
AdjustmentError == validate_against_state_and_deduct_caller(tx, pre, <<>>).error # NoError

\* a phase that raises an error has ended the run once it has run
EarlyError ==
    \/ ValidationError /\ Len(PhasesRun) >= 1
    \/ AdjustmentError /\ Len(PhasesRun) >= 2

\* C27: the handler goes through Validate, PreExecution, Execution (or the
\* forced-fail synthesis), PostExecution, Commit in this order; an error of
\* validation or of the balance adjustment ends the run before any execution,
\* reimbursement or reward; the journal is committed at most once and only
\* after post-execution has succeeded
C27_PhasesInOrder ==
    /\ Len(PhasesRun) <= Len(PhaseOrder)
    /\ \A i \in 1 .. Len(PhasesRun) : PhaseOf(PhasesRun[i]) = PhaseOrder[i]
    /\ \A i \in 1 .. Len(phases) : phases[i] = "CatchError" => i = Len(phases)
    /\ EarlyError =>
           /\ Len(PhasesRun) <= 2
           /\ pc \in {"CatchError", "Done"}
           /\ pending # NoError
           /\ frame = <<>>
           /\ ~Ran("Execution") /\ ~Ran("ForcedFail") /\ ~Ran("PostExecution")
           /\ accounts[Beneficiary].balance = pre[Beneficiary].balance
           /\ accounts[RefundRecipient].balance = pre[RefundRecipient].balance
           /\ commits = 0
    /\ commits <= 1
    /\ commits = 1 =>
           /\ PhasesRun = [i \in 1 .. 5 |-> IF i = 3 /\ tx.force_fail THEN "ForcedFail"
                                            ELSE PhaseOrder[i]]
           /\ result.tag = "Ok"
           /\ Finished

\* a run that went through every phase, paid the beneficiary and committed once
C27_Witness ==
    /\ Finished
    /\ commits = 1
    /\ phases = <<"Validate", "PreExecution", "Execution", "PostExecution", "Commit">>
    /\ accounts[Beneficiary].balance > pre[Beneficiary].balance

\* the run ended with an error that is not turned into a failed deposit
PlainFailure ==
    /\ Finished
    /\ result.tag = "Err"
    /\ ~CrossLayer \/ result.error \in {DatabaseError, CustomError}

\* C28: an error of an ordinary transaction, or a database or custom error of
\* any transaction, is returned unchanged and never as a FailedDeposit, with
\* the accounts back at their pre-transaction state (no nonce bump, no mint
\* credit) and the scratch state cleared
C28_PlainFailureDiscardsEverything ==
    PlainFailure =>
        /\ result.error = pending
        /\ result.outcome # "Halt"
        /\ result.reason # ZkHaltReason_FailedDeposit
        /\ SameInfo(accounts, pre)
        /\ journal = <<>>
        /\ commits = 0
        /\ scratch = "clear"

\* post-execution has made its payments and the commit is next
Paid == pc = "Commit"

DepositStyle == tx.force_fail \/ IsSome(tx.gas_used_override)

\* effective_gas_price x (gas spent minus recorded refund) of the final gas
Reward ==
    effective_gas_price(tx, BlockBaseFee) * (Gas_spent(frame[1].gas) - frame[1].gas.refunded)

\* the reward is the last journal entry, the caller's reimbursement precedes it
RewardAfterReimbursement ==
    /\ Len(journal) >= 4
    /\ journal[Len(journal)] = BalanceChange(Beneficiary, pre[Beneficiary].balance)
    /\ \E i \in 3 .. Len(journal) - 1 :
           journal[i].entry = "BalanceChange" /\ journal[i].address = Caller

\* C29 as stated: the reward is effective_gas_price x gas_used, paid after
\* the caller's reimbursement, and a transaction with force_fail or with a
\* gas_used_override pays no reward at all
C29_RewardSkippedForDeposits ==
    Paid =>
        IF DepositStyle
        THEN accounts[Beneficiary].balance = pre[Beneficiary].balance
        ELSE /\ accounts[Beneficiary].balance = pre[Beneficiary].balance + Reward
             /\ RewardAfterReimbursement

\* C29: the reward is effective_gas_price x gas_used, paid after the caller's
\* reimbursement, and a transaction with force_fail or with a
\* gas_used_override pays it in the same way from its synthesized or
\* rewritten gas
C29_RewardAlwaysPaid ==
    Paid =>
        /\ accounts[Beneficiary].balance = pre[Beneficiary].balance + Reward
        /\ RewardAfterReimbursement
        /\ frame[1].gas.refunded <= Gas_spent(frame[1].gas)

\* a forced failure with an override below the limit has paid its reward
C29_Witness ==
    /\ Paid
    /\ tx.force_fail
    /\ tx.gas_used_override = Some(IntrinsicGas)
    /\ tx.gas_limit > IntrinsicGas
    /\ accounts[Beneficiary].balance = pre[Beneficiary].balance + IntrinsicGas
    /\ accounts[Beneficiary].balance > pre[Beneficiary].balance

\* the bytes argument of setDeployedCodeEVM as the call decodes it
DeployerBytecode ==
    Slice(DeployerArgs, DeployerOffset.val + 32, DeployerOffset.val + 32 + DeployerLength.val)

\* the target account holds exactly the code b
InstalledCodeIs(b) ==
    IF BytesLen(b) = 0 THEN dcall.code = <<>>
    ELSE dcall.code # <<>> /\ dcall.code = b

\* C30: a successful Contract Deployer call marks the target touched and warm
\* and installs the decoded bytecode as its code; a reverted call leaves the
\* target's code and its touched and warm marks as they were
C30_DeployInstallsCode ==
    dcall.state = "done" =>
        /\ dcall.result.result = "Return" =>
               /\ dcall.touched
               /\ dcall.warm
               /\ InstalledCodeIs(DeployerBytecode)
        /\ dcall.result.result = "Revert" =>
               /\ ~dcall.touched
               /\ ~dcall.warm
               /\ dcall.code = <<>>

\* C31: a Contract Deployer call that fails validation returns Revert with
\* less gas than it was given: the fixed overhead is charged, the full gas
\* limit never comes back
C31_RevertChargesOverhead ==
    (dcall.state = "done" /\ dcall.result.result = "Revert" /\ dcall.gas_limit > 0)
        => /\ dcall.result.gas.limit = dcall.gas_limit
           /\ dcall.result.gas.remaining < dcall.gas_limit

DeployerSelector ==
    IF BytesLen(dcall.calldata) < 4 THEN <<>>
    ELSE <<At(dcall.calldata, 0), At(dcall.calldata, 1), At(dcall.calldata, 2),
           At(dcall.calldata, 3)>>

\* C32: a Contract Deployer call succeeds only with a zero call value, outside
\* a static call, with the one supported selector, with the upper 12 bytes of
\* the address word zero and with code that does not start with 0xEF
C32_DeployerSuccessConditions ==
    (dcall.state = "done" /\ dcall.result.result = "Return")
        => /\ dcall.call_value = 0
           /\ ~dcall.is_static
           /\ DeployerSelector = SET_DEPLOYED_CODE_EVM_SELECTOR
           /\ ~AnyNonZero(DeployerArgs, 0, 12)
           /\ DeployerLength.val = 0 \/ At(DeployerBytecode, 0) # 239

\* C33 as stated: a sendToL1 call succeeds only outside a static call, with a
\* zero call value, an offset word of exactly 32, a calldata length after the
\* selector that is a multiple of 32, and 64 + the declared length within
\* it; every other input reverts and emits no log
C33_OtherInputReverts ==
    mcall.state = "done"
        => /\ mcall.result.result = "Return" => WellFormedSend
           /\ ~WellFormedSend
                => /\ mcall.result.result = "Revert"
                   /\ mcall.logs = <<>>

\* C33 amended: every other input reverts and emits no log, or, with a gas
\* limit below the fixed overhead of 10, ends with OutOfGas and emits no log
C33_OtherInputRevertsOrOutOfGas ==
    mcall.state = "done"
        => /\ mcall.result.result = "Return" => WellFormedSend
           /\ ~WellFormedSend
                => /\ mcall.result.result
                        = IF mcall.gas_limit < MESSENGER_OVERHEAD THEN "OutOfGas" ELSE "Revert"
                   /\ mcall.logs = <<>>

\* a call with enough gas, rejected only for calldata that is not a multiple
\* of 32 bytes
C33_Witness ==
    /\ mcall.state = "done"
    /\ mcall.gas_limit >= MESSENGER_OVERHEAD + FormulaGas(MaxMsgLen)
    /\ ~mcall.is_static
    /\ mcall.call_value = 0
    /\ BytesLen(mcall.calldata) >= 4 + 64
    /\ Slice(MessengerArgs, 0, 32) = Bytes(Word(32), 32, 0)
    /\ MessageLength.ok /\ MessageLength.cls = "small"
    /\ 64 + MessageLength.val <= BytesLen(MessengerArgs)
    /\ BytesLen(MessengerArgs) % 32 # 0
    /\ mcall.result.result = "Revert"

\* the nested bytes parameter of withdrawWithMessage, read as the call reads it
NestedOffset == u32_from_be_slice(Slice(bcall.calldata, 36, 68))
NestedLength ==
    u32_from_be_slice(Slice(bcall.calldata, NestedOffset.val + 4, NestedOffset.val + 36))

\* the strict form: canonical offset, a whole number of words after the
\* selector, the declared length within the calldata
NestedBytesStrict ==
    /\ BytesLen(bcall.calldata) >= 4 + 96
    /\ NestedOffset.ok /\ NestedOffset.cls = "small" /\ NestedOffset.val = 64
    /\ NestedLength.ok /\ NestedLength.cls = "small"
    /\ 4 + 96 + NestedLength.val <= BytesLen(bcall.calldata)
    /\ (BytesLen(bcall.calldata) - 4) % 32 = 0

\* C34: withdraw and withdrawWithMessage revert when the upper 12 bytes of the
\* receiver's address word are not zero, and withdrawWithMessage reverts
\* unless its nested bytes parameter has the strict form the L1 Messenger
\* asks for (given the gas of the fixed overhead)
C34_StrictWithdrawEncoding ==
    (bcall.state = "done" /\ bcall.gas_limit >= BASE_TOKEN_OVERHEAD
       /\ BytesLen(bcall.calldata) >= 16)
        => /\ (BaseTokenSelector \in {WITHDRAW_SELECTOR, WITHDRAW_WITH_MESSAGE_SELECTOR}
                 /\ AnyNonZero(bcall.calldata, 4, 16))
                => bcall.result.result = "Revert"
           /\ (BaseTokenSelector = WITHDRAW_WITH_MESSAGE_SELECTOR /\ ~NestedBytesStrict)
                => bcall.result.result = "Revert"

\* a withdraw or withdrawWithMessage call went through and built its message
MessageBuilt ==
    /\ bcall.state = "done"
    /\ bcall.result.result = "Return"

\* the length of the message the call has to build: 56 for withdraw, 76 + n
\* for withdrawWithMessage with n bytes of additional data
ExpectedMessageLength ==
    IF BaseTokenSelector = WITHDRAW_SELECTOR THEN 56 ELSE 76 + NestedLength.val

\* what the L1 Messenger answers to sendToL1 with the outbound message, sent
\* by the base token with the gas the message needs
MessengerAnswer ==
    l1_messenger_precompile_call(<<>>, L2_BASE_TOKEN_ADDRESS, FALSE,
                                 MESSENGER_OVERHEAD + FormulaGas(ExpectedMessageLength), 0,
                                 Bytes(SEND_TO_L1_SELECTOR \o Expand(OutboundMessage),
                                       4 + BytesLen(OutboundMessage), 0))

\* C35: the outbound message of the base token has the strict form the L1
\* Messenger accepts: offset word 32, the unpadded message length as length
\* word (56 for withdraw, 76 + n for withdrawWithMessage), the
\* finalizeEthWithdrawal selector first, zero padding up to the smallest
\* multiple of 32 (128 bytes for withdraw); the messenger's decoding accepts it
C35_OutboundMessageStrict ==
    MessageBuilt
        => /\ IsSome(bcall.message)
           /\ Slice(OutboundMessage, 0, 32) = Bytes(Word(32), 32, 0)
           /\ Slice(OutboundMessage, 32, 64) = Bytes(Word(ExpectedMessageLength), 32, 0)
           /\ DecodedSelector = Bytes(FINALIZE_ETH_WITHDRAWAL_SELECTOR, 4, 0)
           /\ BytesLen(OutboundMessage) = Pad32(64 + ExpectedMessageLength)
           /\ BaseTokenSelector = WITHDRAW_SELECTOR => BytesLen(OutboundMessage) = 128
           /\ ~AnyNonZero(OutboundMessage, 64 + ExpectedMessageLength, BytesLen(OutboundMessage))
           /\ MessengerAnswer.result.result = "Return"
           /\ Len(MessengerAnswer.logs) = 1

\* a message with 21 bytes of additional data, padded from 161 to 192 bytes
C35_Witness ==
    /\ MessageBuilt
    /\ BaseTokenSelector = WITHDRAW_WITH_MESSAGE_SELECTOR
    /\ NestedLength.val = 21
    /\ At(OutboundMessage, 140) = 171
    /\ BytesLen(OutboundMessage) = 192
    /\ MessengerAnswer.result.result = "Return"

\* zero and non-zero bytes of the input, counted by position
ZeroBytes == Cardinality({i \in 1 .. Len(l1.input) : l1.input[i] = 0})
NonZeroBytes == Cardinality({i \in 1 .. Len(l1.input) : l1.input[i] # 0})

\* (data_gas + fee_overhead) x base_fee x base_fee_scalar, the sum and each
\* product capped at 2^256 - 1, then the truncating division by 1_000_000
LegacyClosedForm ==
    U256_wrapping_div(
      Saturate(MulWide(
        Saturate(MulWide(
          Saturate(AddCarry(l1.data_gas,
                            IF l1.info.l1_fee_overhead = None THEN U256_ZERO
                            ELSE l1.info.l1_fee_overhead[1], 0)),
          l1.info.l1_base_fee)),
        l1.info.l1_base_fee_scalar)),
      1000000)

\* C36: the legacy cost is floor((data_gas + fee_overhead) x base_fee x
\* base_fee_scalar / 1_000_000) with data_gas = (zero bytes + 4 x non-zero
\* bytes) x the per-token cost, the products saturating at 2^256 - 1 and a
\* missing fee overhead counting as zero
C36_LegacyCostIsClosedForm ==
    Priced
        => /\ l1.data_gas = U256_from((ZeroBytes + 4 * NonZeroBytes) * STANDARD_TOKEN_COST)
           /\ l1.bedrock = Some(LegacyClosedForm)

\* 16 non-zero bytes under overhead 188, base fee 1000 and scalar 2000000:
\* (256 + 188) x 1000 x 2000000 / 1000000 = 888000
C36_Witness ==
    /\ Priced
    /\ SixteenNonZeroBytes
    /\ l1.info.l1_fee_overhead = Some(U256_from(188))
    /\ l1.info.l1_base_fee = U256_from(1000)
    /\ l1.info.l1_base_fee_scalar = U256_from(2000000)
    /\ l1.data_gas = U256_from(256)
    /\ l1.bedrock = Some(U256_from(888000))

\* the balances of caller, target, refund recipient and beneficiary together
TotalBalance(acc) ==
    acc[Caller].balance + acc[Target].balance + acc[RefundRecipient].balance
      + acc[Beneficiary].balance

Committed == Finished /\ result.tag = "Ok" /\ commits = 1

\* C37: a committed transaction creates no value beyond its mint: the four
\* balances together are afterwards at most what they were before plus mint
C37_NoValueCreated ==
    Committed => TotalBalance(accounts) <= TotalBalance(pre) + TxMint

\* the mint does not cover what additional_refund takes from it
MintShort ==
    TxMint < FeeSpent + (IF is_ok(frame[1].result) THEN tx.value ELSE 0)

\* C38: for a cross-layer transaction that has been through post-execution the
\* refund recipient receives at most mint; when mint is smaller than value +
\* fee_spent (success) or fee_spent (failure) the recipient's balance does not
\* grow by more than mint and the transaction does not go on to the commit
\* with the shortfall ignored
C38_RefundAtMostMint ==
    (CrossLayer /\ Ran("PostExecution") /\ IsSome(tx.refund_recipient))
        => /\ accounts[RefundRecipient].balance <= pre[RefundRecipient].balance + TxMint
           /\ MintShort => pc \notin {"Commit"} /\ ~Committed

\* the call recorded a balance entry for the token-holder account
BalanceJournaled ==
    \E i \in DOMAIN bcall.st.journal :
        /\ bcall.st.journal[i].entry = "BalanceChange"
        /\ bcall.st.journal[i].address = L2_BASE_TOKEN_ADDRESS

Withdrawal ==
    /\ BytesLen(bcall.calldata) >= 4
    /\ BaseTokenSelector \in {WITHDRAW_SELECTOR, WITHDRAW_WITH_MESSAGE_SELECTOR}

\* C39: whenever withdraw or withdrawWithMessage returns Revert, the
\* token-holder account has the balance it had before the call and the call
\* recorded no balance journal entry: all validation precedes the debit
C39_RevertLeavesBalance ==
    (bcall.state = "done" /\ Withdrawal /\ bcall.result.result = "Revert")
        => /\ bcall.st.token.balance = bcall.before.balance
           /\ ~BalanceJournaled

====
